---------------------------- MODULE Spec2Model ----------------------------
(***************************************************************************)
(* A model of the analysis core of smithy-vscode: the Lexer, the Parser,   *)
(* the ParsedDocument and the document registry (Model).                   *)
(*                                                                         *)
(* Source texts are TLA+ strings; a character is a string of length one    *)
(* and the empty string stands for what String.charAt / String.substr      *)
(* return past the end of the text.                                        *)
(***************************************************************************)
EXTENDS Integers, Sequences, FiniteSets, TLC

VARIABLES
    source,         \* Lexer.source: the text being tokenized
    position,       \* Lexer.position: {index, line, column}
    lexpc,          \* where Lexer.getTokens stands: "loop", "skipUntil", "done"
    yielded,        \* the tokens getTokens has yielded so far, in order
    parser,         \* the Parser: [tokens, hangs, currentToken, parsedDocument, thrown]
    phase,          \* "lexer", "tokens", "parse", "thrown", "finished", "validated"
    parsedMessages, \* ParsedDocument.messages as finishParsing() found them
    validatedWith,  \* which document set the last validate() was given (0: none)
    repeats,        \* how many validate() calls in a row were given that set
    calls,          \* how many times advanceToken has been called
    model,          \* the Model: [parsedFiles], the registry as the sequence of
                    \* <<uri, ParsedDocument>> in the order of insertion
    documents,      \* the open TextDocuments: <<uri, [text, parsedDocument]>>
    published,      \* what connection.sendDiagnostics was last given, per uri
    request         \* the last call made or notification handled, and its result

lexVars == <<source, position, lexpc, yielded>>
parserVars == <<parser, phase, parsedMessages, validatedWith, repeats, calls>>
modelVars == <<model, documents, published, request>>
vars ==
    <<source, position, lexpc, yielded, parser, phase, parsedMessages, validatedWith,
      repeats, calls, model, documents, published, request>>

\* No call has been made.
NoRequest == [name |-> "none"]

\* The registry and the connection before anything is opened.
ModelIdle ==
    /\ model = [parsedFiles |-> <<>>]
    /\ documents = <<>>
    /\ published = <<>>
    /\ request = NoRequest

-----------------------------------------------------------------------------
(* Bounds of the model.                                                     *)

\* Longest source text of the character-level lexer specification.
MaxLen == 4
\* How far past the end of the text a scan that never meets its stop
\* character is followed before the model stops following it.
MaxOverrun == 4
\* Most statements (or pieces of statements) in a text of the parser
\* specification.
MaxStatements == 3
\* Most calls of advanceToken followed in the token stream specification.
MaxCalls == 7
\* Most validate() calls in a row with one document set that are counted.
MaxRepeats == 2

-----------------------------------------------------------------------------
(* Characters and character classes (the regular expressions of Lexer).     *)

Min(a, b) == IF a < b THEN a ELSE b
Max(a, b) == IF a < b THEN b ELSE a

\* body(value): value is worked out once, when body first asks for it.
Let(value, body(_)) == body(value)

\* body(value): value is worked out first, then body.
Strict(value, body(_)) == CHOOSE result \in {body(v) : v \in {value}} : TRUE

LF == "\n"
CR == "\r"
\* /[ \t]/
Whitespace == {" ", "\t"}
\* /[(){}\[\],:=]/
Delimiters == {"(", ")", "{", "}", "[", "]", ",", ":", "="}
\* /[0-9]/
Digits == {"0", "1", "2", "3", "4", "5", "6", "7", "8", "9"}
LowerLetters ==
    {"a", "b", "c", "d", "e", "f", "g", "h", "i", "j", "k", "l", "m",
     "n", "o", "p", "q", "r", "s", "t", "u", "v", "w", "x", "y", "z"}
UpperLetters ==
    {"A", "B", "C", "D", "E", "F", "G", "H", "I", "J", "K", "L", "M",
     "N", "O", "P", "Q", "R", "S", "T", "U", "V", "W", "X", "Y", "Z"}
\* /[a-z_.$#@]/i
IdentifierStart == LowerLetters \cup UpperLetters \cup {"_", ".", "$", "#", "@"}
\* /[a-z0-9_.$#@]/i
IdentifierPart == IdentifierStart \cup Digits
\* /[+\-]/
Signs == {"+", "-"}

-----------------------------------------------------------------------------
(* Lexer: positions and the private helpers.                                *)

\* The position set by the constructor.
StartPosition == [index |-> 0, line |-> 0, column |-> 0]

\* String.charAt(i): the empty string outside the text.
CharAt(src, i) == IF i >= 0 /\ i < Len(src) THEN SubSeq(src, i + 1, i + 1) ELSE ""

\* String.substring(from, to), both clamped to the text.
Substring(src, from, to) ==
    LET a == Min(Max(from, 0), Len(src))
        b == Min(Max(to, 0), Len(src))
    IN  IF a < b THEN SubSeq(src, a + 1, b) ELSE ""

ended(src, pos) == pos.index >= Len(src)

char(src, pos) == CharAt(src, pos.index)

\* peek(): source.substr(index + 1, 1)
peek(src, pos) == CharAt(src, pos.index + 1)

\* advance(): moves to the next index; the line counter is stepped, and the
\* column reset, when the character ARRIVED AT is a line feed.  The character
\* advance() returns is char() at the new position.
advance(src, pos) ==
    LET result == CharAt(src, pos.index + 1)
    IN  IF result = LF
        THEN [index |-> pos.index + 1, line |-> pos.line + 1, column |-> 0]
        ELSE [index |-> pos.index + 1, line |-> pos.line, column |-> pos.column + 1]

\* skipWhile(regExp): the position where the run of class characters ends.
RECURSIVE skipWhile(_, _, _)
skipWhile(src, pos, class) ==
    IF char(src, pos) \in class
    THEN skipWhile(src, advance(src, pos), class)
    ELSE pos

textSince(src, start, pos) == Substring(src, start.index, pos.index)

createToken(src, type, start, pos, value) ==
    [type  |-> type,
     text  |-> textSince(src, start, pos),
     range |-> [start |-> start, end |-> pos],
     value |-> value]


-----------------------------------------------------------------------------
(* Lexer: string literals.                                                  *)

\* Stands for `undefined` where the code returns or stores it.
undefined == "<undefined>"

\* The backspace character (U+0008), which TLA+ has no escape for.
BS == ""

\* Lexer.escapedCharacters
escapedCharacters ==
    [c \in {"\\", "\"", "b", "f", "n", "r", "t"} |->
        CASE c = "\\" -> "\\"
          [] c = "\"" -> "\""
          [] c = "b"  -> BS
          [] c = "f"  -> "\f"
          [] c = "n"  -> "\n"
          [] c = "r"  -> "\r"
          [] c = "t"  -> "\t"]

\* charCodeAt(0) of the characters valueFromHexChar tells apart.
HexDigitCode ==
    [c \in Digits \cup {"a", "b", "c", "d", "e", "f", "A", "B", "C", "D", "E", "F"} |->
        CASE c = "0" -> 48 [] c = "1" -> 49 [] c = "2" -> 50 [] c = "3" -> 51
          [] c = "4" -> 52 [] c = "5" -> 53 [] c = "6" -> 54 [] c = "7" -> 55
          [] c = "8" -> 56 [] c = "9" -> 57
          [] c = "a" -> 97 [] c = "b" -> 98 [] c = "c" -> 99 [] c = "d" -> 100
          [] c = "e" -> 101 [] c = "f" -> 102
          [] c = "A" -> 65 [] c = "B" -> 66 [] c = "C" -> 67 [] c = "D" -> 68
          [] c = "E" -> 69 [] c = "F" -> 70]

\* valueFromHexChar(char): -1 stands for undefined.  Any character outside
\* the three ranges, and the empty string (charCodeAt gives NaN), is undefined.
valueFromHexChar(c) ==
    IF c \in Digits THEN HexDigitCode[c] - HexDigitCode["0"]
    ELSE IF c \in {"a", "b", "c", "d", "e", "f"} THEN HexDigitCode[c] - HexDigitCode["a"]
    ELSE IF c \in {"A", "B", "C", "D", "E", "F"} THEN HexDigitCode[c] - HexDigitCode["A"]
    ELSE -1

\* String.fromCharCode(n): the code units the texts of the model are written
\* with are the characters themselves, every other code unit is written as
\* its number between angle brackets, so that different code units stay
\* different.
OtherCodeUnit(n) == "<" \o ToString(n) \o ">"
CodeUnitTable ==
    (8 :> BS) @@ (9 :> "\t") @@ (10 :> "\n") @@ (12 :> "\f") @@ (13 :> "\r")
    @@ (32 :> " ") @@ (34 :> "\"") @@ (48 :> "0") @@ (49 :> "1") @@ (52 :> "4")
    @@ (57 :> "9") @@ (65 :> "A") @@ (66 :> "B") @@ (70 :> "F") @@ (92 :> "\\")
    @@ (97 :> "a") @@ (98 :> "b") @@ (102 :> "f")
fromCharCode(n) == IF n \in DOMAIN CodeUnitTable THEN CodeUnitTable[n] ELSE OtherCodeUnit(n)

\* The `for (let i = 0; i < 4; ++i)` loop of a \u escape, entered at the `u`:
\* every round advances first, and a character without a hex value ends the
\* loop with what was accumulated.
RECURSIVE unicodeEscape(_, _, _, _)
unicodeEscape(src, pos, i, escapedValue) ==
    IF i >= 4 THEN [pos |-> pos, value |-> escapedValue]
    ELSE LET p == advance(src, pos)
             charValue == valueFromHexChar(char(src, p))
         IN  IF charValue = -1
             THEN [pos |-> p, value |-> escapedValue]
             ELSE unicodeEscape(src, p, i + 1, escapedValue * 16 + charValue)

\* The loop of the string branch with a line feed ending the literal as
\* the end of the text does.
RECURSIVE stringLoopStopsAtLineEnd(_, _, _)
stringLoopStopsAtLineEnd(src, pos, value) ==
    IF ended(src, pos) THEN [done |-> FALSE, pos |-> pos, value |-> value]
    ELSE LET p1 == advance(src, pos)
             c  == char(src, p1)
         IN  IF c = "\""
             THEN [done |-> TRUE, pos |-> advance(src, p1), value |-> value]
             ELSE IF c = LF
             THEN [done |-> FALSE, pos |-> p1, value |-> value]
             ELSE IF c = "\\"
             THEN LET p2 == advance(src, p1)
                      escapedChar == char(src, p2)
                  IN  IF escapedChar = "u"
                      THEN LET u == unicodeEscape(src, p2, 0, 0)
                           IN  stringLoopStopsAtLineEnd(src, u.pos,
                                                        value \o fromCharCode(u.value))
                      ELSE IF escapedChar \in DOMAIN escapedCharacters
                      THEN stringLoopStopsAtLineEnd(src, p2,
                                                    value \o escapedCharacters[escapedChar])
                      ELSE stringLoopStopsAtLineEnd(src, p2, value \o escapedChar)
             ELSE stringLoopStopsAtLineEnd(src, p1, value \o c)

\* The `while (!done && !this.ended())` loop of the string branch, entered
\* with the position on the character handled last (first the opening quote).
\* done tells whether the closing quote was met, i.e. whether a token is
\* yielded; value is value.join('').
RECURSIVE stringLoop(_, _, _)
stringLoop(src, pos, value) ==
    IF ended(src, pos) THEN [done |-> FALSE, pos |-> pos, value |-> value]
    ELSE LET p1 == advance(src, pos)
             c  == char(src, p1)
         IN  IF c = "\""
             THEN [done |-> TRUE, pos |-> advance(src, p1), value |-> value]
             ELSE IF c = "\\"
             THEN LET p2 == advance(src, p1)
                      escapedChar == char(src, p2)
                  IN  IF escapedChar = "u"
                      THEN LET u == unicodeEscape(src, p2, 0, 0)
                           IN  stringLoop(src, u.pos, value \o fromCharCode(u.value))
                      ELSE IF escapedChar \in DOMAIN escapedCharacters
                      THEN stringLoop(src, p2, value \o escapedCharacters[escapedChar])
                      ELSE stringLoop(src, p2, value \o escapedChar)
             ELSE stringLoop(src, p1, value \o c)

-----------------------------------------------------------------------------
(* Lexer: numbers.                                                          *)

\* The number branch from `start`: where it ends and the numeral it rebuilds.
\* The code's `negated` is used for nothing but the first advance.
numberBranch(src, start) ==
    Let(IF char(src, start) = "-" THEN advance(src, start) ELSE start, LAMBDA p0 :
    Let(skipWhile(src, p0, Digits), LAMBDA p1 :
    Let(char(src, p1) = "." /\ peek(src, p1) \in Digits, LAMBDA hasFraction :
    Let(IF hasFraction THEN skipWhile(src, advance(src, p1), Digits) ELSE p1, LAMBDA p2 :
    Let(char(src, p2) = "e" /\ (peek(src, p2) \in Signs \/ peek(src, p2) \in Digits),
        LAMBDA hasExponent :
    Let(IF hasExponent THEN advance(src, p2) ELSE p2, LAMBDA p3 :
    Let(hasExponent /\ char(src, p3) \in Signs, LAMBDA hasSign :
    Let(IF hasSign THEN advance(src, p3) ELSE p3, LAMBDA p4 :
    Let(IF hasExponent THEN skipWhile(src, p4, Digits) ELSE p4, LAMBDA p5 :
        LET value == textSince(src, p0, p1)
            fraction == IF hasFraction THEN textSince(src, advance(src, p1), p2) ELSE ""
            exponentSign == IF hasSign THEN char(src, p3) ELSE ""
            exponent == IF hasExponent THEN textSince(src, p4, p5) ELSE ""
        IN  [pos   |-> p5,
             value |-> value
                       \o (IF fraction # "" THEN "." \o fraction ELSE "")
                       \o (IF exponent # "" THEN "e" \o exponentSign \o exponent
                           ELSE "")])))))))))

-----------------------------------------------------------------------------
(* Lexer: one round of the `while (!this.ended())` loop of getTokens.       *)

\* The inner `while (this.char().match(/[ \t]/))` loop: returned tells that
\* advance() gave the empty string, on which getTokens returns.
RECURSIVE skipWhitespace(_, _)
skipWhitespace(src, pos) ==
    IF char(src, pos) \in Whitespace
    THEN LET p == advance(src, pos)
         IN  IF char(src, p) = ""
             THEN [returned |-> TRUE, pos |-> p]
             ELSE skipWhitespace(src, p)
    ELSE [returned |-> FALSE, pos |-> pos]

\* Which branch of the if-else chain is taken at `start`.
branch(src, start) ==
    IF char(src, start) = "/" /\ peek(src, start) = "/" THEN "comment"
    ELSE IF char(src, start) = LF \/ (char(src, start) = CR /\ peek(src, start) = LF)
    THEN "linebreak"
    ELSE IF char(src, start) \in Delimiters THEN "delimiter"
    ELSE IF char(src, start) = "\"" THEN "string"
    ELSE IF (char(src, start) = "-" /\ peek(src, start) \in Digits)
            \/ char(src, start) \in Digits
    THEN "number"
    ELSE IF char(src, start) \in IdentifierStart THEN "identifier"
    ELSE "error"

\* The comment branch up to the call of skipUntil: `//`, and a third `/`.
commentStart(src, start) ==
    LET p == advance(src, advance(src, start))
    IN  IF char(src, p) = "/" THEN advance(src, p) ELSE p

\* A line break that swallows the character after CR LF as well.
lineBreakEndSwallow(src, start) ==
    IF char(src, start) = CR
    THEN advance(src, advance(src, advance(src, start)))
    ELSE advance(src, start)

lineBreakEnd(src, start) ==
    IF char(src, start) = CR THEN advance(src, advance(src, start)) ELSE advance(src, start)

\* A delimiter branch that forgets its advance().
yieldDelimiterNoAdvance(src, start) ==
    createToken(src, "Delimiter", start, start, char(src, start))

yieldDelimiter(src, start) ==
    createToken(src, "Delimiter", start, advance(src, start), char(src, start))

yieldString(src, start) ==
    Let(stringLoop(src, start, ""), LAMBDA r :
        createToken(src, "String", start, r.pos, r.value))

yieldNumber(src, start) ==
    Let(numberBranch(src, start), LAMBDA r :
        createToken(src, "Number", start, r.pos, r.value))

yieldIdentifier(src, start) ==
    Let(skipWhile(src, start, IdentifierPart), LAMBDA p :
        createToken(src, "Identifier", start, p, textSince(src, start, p)))

yieldError(src, start) ==
    LET p == advance(src, start)
    IN  createToken(src, "Error", start, p,
                    "Unknown token: " \o char(src, start) \o ", " \o char(src, p))

-----------------------------------------------------------------------------
(* SpecLexer: Lexer.getTokens driven to exhaustion over every short text.   *)

\* The characters the texts of SpecLexer are made of: one or two of each
\* class the if-else chain of getTokens tells apart.
LexChars == {" ", "\n", "\r", "/", "\"", "a", "1", ":"}

RECURSIVE Texts(_, _)
Texts(chars, n) ==
    IF n = 0 THEN {""}
    ELSE LET shorter == Texts(chars, n - 1)
         IN  shorter \cup {t \o c : t \in shorter, c \in chars}

\* new Lexer(source)
LexInit ==
    /\ source \in Texts(LexChars, MaxLen)
    /\ position = StartPosition
    /\ lexpc = "loop"
    /\ yielded = <<>>
    /\ parser = <<>>
    /\ phase = "lexer"
    /\ parsedMessages = <<>>
    /\ validatedWith = 0
    /\ repeats = 0
    /\ calls = 0
    /\ ModelIdle

\* `while (!this.ended())` is false: the generator is exhausted.
LexExhausted ==
    /\ lexpc = "loop"
    /\ ended(source, position)
    /\ lexpc' = "done"
    /\ UNCHANGED <<source, position, yielded, parserVars, modelVars>>

\* The whitespace loop runs into the end of the text: `return`.
LexWhitespaceReturn ==
    /\ lexpc = "loop"
    /\ ~ended(source, position)
    /\ skipWhitespace(source, position).returned
    /\ position' = skipWhitespace(source, position).pos
    /\ lexpc' = "done"
    /\ UNCHANGED <<source, yielded, parserVars, modelVars>>

\* A round of the loop that reaches the if-else chain at `start`.
AtBranch(name) ==
    /\ lexpc = "loop"
    /\ ~ended(source, position)
    /\ ~skipWhitespace(source, position).returned
    /\ branch(source, skipWhitespace(source, position).pos) = name

start == skipWhitespace(source, position).pos

\* `//` or `///`: up to the call of skipUntil(/\n/).
LexComment ==
    /\ AtBranch("comment")
    /\ position' = commentStart(source, start)
    /\ lexpc' = "skipUntil"
    /\ UNCHANGED <<source, yielded, parserVars, modelVars>>

\* One round of skipUntil's `while (!this.char().match(regExp))`.  Past the
\* end of the text char() is the empty string, which matches nothing.
LexSkipUntilAdvance ==
    /\ lexpc = "skipUntil"
    /\ char(source, position) # LF
    /\ position.index < Len(source) + MaxOverrun
    /\ position' = advance(source, position)
    /\ UNCHANGED <<source, lexpc, yielded, parserVars, modelVars>>

\* skipUntil returns at a line feed, and the comment branch advances over it.
LexSkipUntilReturn ==
    /\ lexpc = "skipUntil"
    /\ char(source, position) = LF
    /\ position' = advance(source, position)
    /\ lexpc' = "loop"
    /\ UNCHANGED <<source, yielded, parserVars, modelVars>>

LexLineBreak ==
    /\ AtBranch("linebreak")
    /\ position' = lineBreakEnd(source, start)
    /\ UNCHANGED <<source, lexpc, yielded, parserVars, modelVars>>

LexDelimiter ==
    /\ AtBranch("delimiter")
    /\ position' = yieldDelimiter(source, start).range.end
    /\ yielded' = Append(yielded, yieldDelimiter(source, start))
    /\ UNCHANGED <<source, lexpc, parserVars, modelVars>>

\* A string literal: a String token when the closing quote is met, and
\* nothing when the text ends first.
LexString ==
    /\ AtBranch("string")
    /\ position' = stringLoop(source, start, "").pos
    /\ yielded' = IF stringLoop(source, start, "").done
                  THEN Append(yielded, yieldString(source, start))
                  ELSE yielded
    /\ UNCHANGED <<source, lexpc, parserVars, modelVars>>

LexNumber ==
    /\ AtBranch("number")
    /\ position' = yieldNumber(source, start).range.end
    /\ yielded' = Append(yielded, yieldNumber(source, start))
    /\ UNCHANGED <<source, lexpc, parserVars, modelVars>>

LexIdentifier ==
    /\ AtBranch("identifier")
    /\ position' = yieldIdentifier(source, start).range.end
    /\ yielded' = Append(yielded, yieldIdentifier(source, start))
    /\ UNCHANGED <<source, lexpc, parserVars, modelVars>>

LexError ==
    /\ AtBranch("error")
    /\ position' = yieldError(source, start).range.end
    /\ yielded' = Append(yielded, yieldError(source, start))
    /\ UNCHANGED <<source, lexpc, parserVars, modelVars>>

LexNext ==
    \/ LexExhausted
    \/ LexWhitespaceReturn
    \/ LexComment
    \/ LexSkipUntilAdvance
    \/ LexSkipUntilReturn
    \/ LexLineBreak
    \/ LexDelimiter
    \/ LexString
    \/ LexNumber
    \/ LexIdentifier
    \/ LexError

SpecLexer == LexInit /\ [][LexNext]_vars

-----------------------------------------------------------------------------
(* Claims about the Lexer (checked under SpecLexer).                        *)

StartIndex(t) == t.range.start.index
EndIndex(t) == t.range.end.index

\* C1: for every finite text getTokens terminates, also when the last line
\* is a comment without a line feed or the text ends inside a string.
\* Stated so that a finite run refutes it: skipUntil is the one loop of the
\* lexer whose guard tests neither ended() nor the empty string, and it can
\* only stop on a line feed; once it stands at or past the end of the text
\* every later character is empty and advance() never goes back, so the
\* generator is never exhausted.  Termination therefore needs skipUntil
\* never to stand at or past the end of the text.
C1_GetTokensTerminates ==
    lexpc = "skipUntil" => ~ended(source, position)

\* C2: every yielded token ends strictly after it starts and starts no
\* earlier than the token yielded before it ends.
C2_TokensAdvance ==
    \A i \in 1..Len(yielded) :
        /\ EndIndex(yielded[i]) > StartIndex(yielded[i])
        /\ i > 1 => StartIndex(yielded[i]) >= EndIndex(yielded[i - 1])

C2_Witness ==
    /\ lexpc = "done"
    /\ Len(yielded) >= 2
    /\ StartIndex(yielded[2]) > EndIndex(yielded[1])

\* The part of the text getTokens is through with when it stands at the head
\* of its loop or is exhausted.
Settled == Min(position.index, Len(source))

Covered(i) == \E k \in 1..Len(yielded) : StartIndex(yielded[k]) <= i /\ i < EndIndex(yielded[k])

\* The maximal runs [a, b) of settled characters outside every token.
Gaps ==
    {g \in (0..Settled) \X (0..Settled) :
        /\ g[1] < g[2]
        /\ \A i \in g[1]..(g[2] - 1) : ~Covered(i)
        /\ g[1] = 0 \/ Covered(g[1] - 1)
        /\ g[2] = Settled \/ Covered(g[2])}

\* The index of the first line feed of s at or after i, Len(s) without one.
RECURSIVE EndOfLine(_, _)
EndOfLine(s, i) == IF i >= Len(s) \/ CharAt(s, i) = LF THEN i ELSE EndOfLine(s, i + 1)

\* s[i..] is made only of spaces and tabs, line breaks (LF or CR LF) and line
\* comments (`//` up to and including the line feed that ends them); with
\* unclosed set, also of a string literal at a that the string branch leaves
\* without meeting its closing quote, up to the end of the text.
RECURSIVE DiscardedOnly(_, _, _, _)
DiscardedOnly(s, a, i, unclosed) ==
    IF i >= Len(s) THEN TRUE
    ELSE LET c == CharAt(s, i)
         IN  IF c \in Whitespace \/ c = LF THEN DiscardedOnly(s, a, i + 1, unclosed)
             ELSE IF c = CR /\ CharAt(s, i + 1) = LF THEN DiscardedOnly(s, a, i + 2, unclosed)
             ELSE IF c = "/" /\ CharAt(s, i + 1) = "/"
             THEN DiscardedOnly(s, a, EndOfLine(s, i) + 1, unclosed)
             ELSE /\ unclosed
                  /\ c = "\""
                  /\ a + Len(s) = Len(source)
                  /\ ~stringLoop(source, [index |-> a + i, line |-> 0, column |-> 0], "").done

TokensAreSlices ==
    \A k \in 1..Len(yielded) :
        yielded[k].text = Substring(source, StartIndex(yielded[k]), EndIndex(yielded[k]))

RoundTrip(unclosed) ==
    lexpc \in {"loop", "done"} =>
        /\ TokensAreSlices
        /\ \A g \in Gaps : DiscardedOnly(Substring(source, g[1], g[2]), g[1], 0, unclosed)
        /\ lexpc = "done" => position.index >= Len(source)

\* C3 as claimed: every token's text is its slice of the text, and what lies
\* outside the tokens is made only of spaces/tabs, line comments and line
\* breaks, so that tokens and discarded spans rebuild the text.
C3_RoundTrip_Claimed == RoundTrip(FALSE)

\* C3 as amended: ... or of a string literal the lexer leaves unclosed at
\* the end of the text, for which it yields no token.
C3_RoundTrip == RoundTrip(TRUE)

C3_Witness ==
    /\ lexpc = "done"
    /\ Len(yielded) >= 1
    /\ \E g \in Gaps : g[2] = Len(source) /\ CharAt(source, g[1]) = " "
                       /\ CharAt(source, g[1] + 1) = "\""

\* The exact zero-based line and column of index i of the text.
LinesBefore(s, i) == Cardinality({j \in 0..(i - 1) : CharAt(s, j) = LF})
LineStart(s, i) ==
    LET feeds == {j \in 0..(i - 1) : CharAt(s, j) = LF}
    IN  IF feeds = {} THEN 0 ELSE 1 + CHOOSE j \in feeds : \A k \in feeds : k <= j
ExactPosition(s, pos) ==
    /\ pos.line = LinesBefore(s, pos.index)
    /\ pos.column = pos.index - LineStart(s, pos.index)

\* C4: the start and the end of every yielded token are exact: line is the
\* number of line feeds before the index, column the distance from the start
\* of that line.
C4_RangesExact ==
    \A k \in 1..Len(yielded) :
        /\ ExactPosition(source, yielded[k].range.start)
        /\ ExactPosition(source, yielded[k].range.end)

-----------------------------------------------------------------------------
(* Identifier                                                               *)

\* String.indexOf(c, from): -1 when c does not occur at or after from.
RECURSIVE IndexOf(_, _, _)
IndexOf(s, c, from) ==
    IF from >= Len(s) THEN -1
    ELSE IF CharAt(s, from) = c THEN from
    ELSE IndexOf(s, c, from + 1)

\* new Identifier(value) with the `$` looked for from the start of the value.
IdentifierMemberAnywhere(value) ==
    LET namespaceIndex == IndexOf(value, "#", 0)
        memberIndex == IndexOf(value, "$", 0)
    IN  [namespace |-> IF namespaceIndex # -1
                       THEN Substring(value, 0, namespaceIndex)
                       ELSE undefined,
         name      |-> Substring(value, namespaceIndex + 1,
                                 IF memberIndex # -1 THEN memberIndex ELSE Len(value)),
         member    |-> IF memberIndex # -1
                       THEN Substring(value, memberIndex + 1, Len(value))
                       ELSE undefined]

\* new Identifier(value); the string `undefined` stands for undefined.
Identifier(value) ==
    LET namespaceIndex == IndexOf(value, "#", 0)
        memberIndex == IndexOf(value, "$", namespaceIndex + 1)
    IN  [namespace |-> IF namespaceIndex # -1
                       THEN Substring(value, 0, namespaceIndex)
                       ELSE undefined,
         name      |-> Substring(value, namespaceIndex + 1,
                                 IF memberIndex # -1 THEN memberIndex ELSE Len(value)),
         member    |-> IF memberIndex # -1
                       THEN Substring(value, memberIndex + 1, Len(value))
                       ELSE undefined]

\* What `!x` and `x ? :` take for false in a string-or-undefined.
Falsy(x) == x = undefined \/ x = ""

toRelative(identifier) ==
    IF ~Falsy(identifier.member)
    THEN identifier.name \o "$" \o identifier.member
    ELSE identifier.name

forMember(identifier, memberName) ==
    Identifier((IF ~Falsy(identifier.namespace) THEN identifier.namespace \o "#" ELSE "")
               \o identifier.name \o "$" \o memberName)

-----------------------------------------------------------------------------
(* schema.ts: the names validation knows.                                   *)

\* Object.values(SimpleShapes)
simpleShapeNames ==
    {"blob", "boolean", "string", "byte", "short", "integer", "long", "float",
     "double", "bigInteger", "bigDecimal", "timestamp", "document"}

\* Object.keys(Prelude.shapes)
PreludeShapes ==
    {"String", "Blob", "BigInteger", "BigDecimal", "Timestamp", "Document",
     "Boolean", "PrimitiveBoolean", "Byte", "PrimitiveByte", "Short",
     "PrimitiveShort", "Integer", "PrimitiveInteger", "Long", "PrimitiveLong",
     "Float", "PrimitiveFloat", "Double", "PrimitiveDouble"}

\* Object.keys(Traits)
Traits ==
    {"enum", "idRef", "length", "pattern", "private", "range", "required",
     "uniqueItems", "deprecated", "documentation", "examples",
     "externalDocumentation", "internal", "recommended", "sensitive", "since",
     "tags", "title", "unstable", "box", "error", "sparse",
     "protocolDefinition", "jsonName", "mediaType", "timestampFormat",
     "authDefinition", "httpBasicAuth", "httpDigestAuth", "httpBearerAuth",
     "httpApiKeyAuth", "optionalAuth", "auth", "idempotencyToken",
     "idempotent", "readonly", "retryable", "paginated",
     "httpChecksumRequired", "noReplace", "references", "resourceIdentifier",
     "streaming", "requiresLength", "eventHeader", "eventPayload", "http",
     "httpError", "httpHeader", "httpLabel", "httpPayload",
     "httpPrefixHeaders", "httpQuery", "httpQueryParams", "httpResponseCode",
     "cors", "xmlAttribute", "xmlFlattened", "xmlName", "xmlNamespace",
     "endpoint", "hostLabel", "suppress"}

preludeShapeNames == PreludeShapes \cup Traits

\* Prelude.namespace, the fallback of resolveId.
PreludeNamespace == "smithy.api"

-----------------------------------------------------------------------------
(* ParsedDocument                                                           *)
(* A document is a record of its fields.  The objects used as dictionaries  *)
(* (sections, metadata, controls, relativeShapes, shapes) are functions     *)
(* from their keys; a key is present when it is in the DOMAIN.              *)

EmptyMap == [k \in {} |-> <<>>]

\* The property names every object literal inherits from Object.prototype.
ObjectPrototypeKeys ==
    {"constructor", "hasOwnProperty", "isPrototypeOf", "propertyIsEnumerable",
     "toLocaleString", "toString", "valueOf", "__proto__", "__defineGetter__",
     "__defineSetter__", "__lookupGetter__", "__lookupSetter__"}

\* key is an own property of map.
Has(map, key) == key \in DOMAIN map

\* map[key] is read from the prototype: a function (or, for __proto__, the
\* prototype itself), which is truthy and has no property 0 and no push.
Inherited(map, key) == ~Has(map, key) /\ key \in ObjectPrototypeKeys

\* The property name a value is turned into when it indexes an object.
PropertyKey(value) == IF value = undefined THEN "undefined" ELSE value

\* map[key] = item, for a key the map may or may not have; an assignment to
\* __proto__ makes no own property.
Put(map, key, item) ==
    IF key = "__proto__" THEN map
    ELSE [k \in DOMAIN map \cup {key} |-> IF k = key THEN item ELSE map[k]]

\* new ParsedDocument(uri)
ParsedDocument(uri) ==
    [uri                |-> uri,
     sections           |-> EmptyMap,
     metadata           |-> EmptyMap,
     namespace          |-> undefined,
     controls           |-> EmptyMap,
     relativeShapes     |-> EmptyMap,
     shapes             |-> EmptyMap,
     references         |-> <<>>,
     messages           |-> <<>>,
     parsedMessageCount |-> 0]

\* addMessage that takes no notice of `after`.
addMessageOnToken(doc, text, token, type, after) ==
    [doc EXCEPT !.messages = Append(@,
        [type       |-> type,
         text       |-> text,
         startIndex |-> IF token.type # "End" THEN token.range.start.index
                        ELSE token.range.end.index - 1,
         endIndex   |-> token.range.end.index])]

\* addMessage(text, {token, type, after}); the caller passes "Error" where
\* the code leaves type out.
addMessage(doc, text, token, type, after) ==
    LET onToken == ~after /\ token.type # "End"
    IN  [doc EXCEPT !.messages = Append(@,
            [type       |-> type,
             text       |-> text,
             startIndex |-> IF onToken THEN token.range.start.index
                            ELSE token.range.end.index - 1,
             endIndex   |-> token.range.end.index])]

\* enterSection without `if (!this.sections[section])`.
enterSectionOverwriting(doc, section, token) ==
    LET d == [doc EXCEPT !.sections = Put(@, section, token)]
    IN  IF section = "Control" /\ (Has(d.sections, "Metadata") \/ Has(d.sections, "Shape"))
        THEN addMessage(d, "Control section has to be defined first.", token, "Error", FALSE)
        ELSE IF section = "Metadata" /\ Has(d.sections, "Shape")
        THEN addMessage(d, "Metadata must be defined before shapes.", token, "Error", FALSE)
        ELSE d

enterSection(doc, section, token) ==
    LET d == IF ~Has(doc.sections, section)
             THEN [doc EXCEPT !.sections = Put(@, section, token)]
             ELSE doc
    IN  IF section = "Control" /\ (Has(d.sections, "Metadata") \/ Has(d.sections, "Shape"))
        THEN addMessage(d, "Control section has to be defined first.", token, "Error", FALSE)
        ELSE IF section = "Metadata" /\ Has(d.sections, "Shape")
        THEN addMessage(d, "Metadata must be defined before shapes.", token, "Error", FALSE)
        ELSE d

\* compareReferences(a, b) < 0, = 0
compareReferences(a, b) ==
    LET aStart == a.token.range.start
        bStart == b.token.range.start
    IN  IF aStart.line - bStart.line # 0
        THEN aStart.line - bStart.line
        ELSE aStart.column - bStart.column

\* Array.prototype.sort(compareReferences): a stable sort, here by insertion.
RECURSIVE InsertSorted(_, _)
InsertSorted(sorted, r) ==
    IF sorted = <<>> THEN <<r>>
    ELSE IF compareReferences(sorted[Len(sorted)], r) <= 0 THEN Append(sorted, r)
    ELSE Append(InsertSorted(SubSeq(sorted, 1, Len(sorted) - 1), r), sorted[Len(sorted)])

RECURSIVE SortReferences(_)
SortReferences(refs) ==
    IF refs = <<>> THEN <<>>
    ELSE InsertSorted(SortReferences(SubSeq(refs, 1, Len(refs) - 1)), refs[Len(refs)])

finishParsing(doc) ==
    [doc EXCEPT !.parsedMessageCount = Len(doc.messages),
                !.references = SortReferences(doc.references)]

\* `${namespace}#${name}` and `$${member}` when there is a member.
CanonicalId(namespace, identifier) ==
    namespace \o "#" \o identifier.name
    \o (IF identifier.member # undefined THEN "$" \o identifier.member ELSE "")

\* A resolveId that does not look at relativeShapes.
resolveIdByNamespace(doc, identifier) ==
    CanonicalId(IF identifier.namespace # undefined THEN identifier.namespace
                ELSE IF ~Falsy(doc.namespace) THEN doc.namespace
                ELSE PreludeNamespace,
                identifier)

\* resolveId(identifier) without `if (identifier.namespace === undefined)`.
resolveIdRelativeFirst(doc, identifier) ==
    LET relative == toRelative(identifier)
    IN  IF Has(doc.relativeShapes, relative)
        THEN doc.relativeShapes[relative][1]
        ELSE IF Inherited(doc.relativeShapes, relative)
        THEN undefined
        ELSE CanonicalId(IF identifier.namespace # undefined THEN identifier.namespace
                         ELSE IF ~Falsy(doc.namespace) THEN doc.namespace
                         ELSE PreludeNamespace,
                         identifier)

\* resolveId(identifier); undefined when relativeShapes[relative] is read
\* from the prototype, whose property 0 is undefined.
resolveId(doc, identifier) ==
    LET relative == toRelative(identifier)
    IN  IF identifier.namespace = undefined /\ Has(doc.relativeShapes, relative)
        THEN doc.relativeShapes[relative][1]
        ELSE IF identifier.namespace = undefined /\ Inherited(doc.relativeShapes, relative)
        THEN undefined
        ELSE CanonicalId(IF identifier.namespace # undefined THEN identifier.namespace
                         ELSE IF ~Falsy(doc.namespace) THEN doc.namespace
                         ELSE PreludeNamespace,
                         identifier)

\* putItem throws a TypeError: map[key] is inherited and has no push.
putItemThrows(map, key) == Inherited(map, key)

\* A putItem that starts a new list whatever the map holds under the key.
putItemOverwriting(map, key, item) ==
    IF ~Inherited(map, key) THEN Put(map, key, <<item>>) ELSE map

\* putItem(map, key, item); the map is left as it is when putItem throws.
putItem(map, key, item) ==
    IF ~Has(map, key) /\ ~Inherited(map, key) THEN Put(map, key, <<item>>)
    ELSE IF Has(map, key) THEN Put(map, key, Append(map[key], item))
    ELSE map

\* addShape throws: one of its two putItem calls does.
addShapeThrows(doc, identifier) ==
    \/ putItemThrows(doc.shapes, PropertyKey(resolveId(doc, identifier)))
    \/ putItemThrows(doc.relativeShapes, toRelative(identifier))

\* addShape(identifier, token); when it throws, the document as the throw
\* leaves it.
addShape(doc, identifier, token) ==
    LET resolvedId == PropertyKey(resolveId(doc, identifier))
        relative == toRelative(identifier)
        d == IF Has(doc.relativeShapes, relative) \/ Inherited(doc.relativeShapes, relative)
             THEN addMessage(doc, "Shape is already defined.", token, "Error", FALSE)
             ELSE doc
    IN  IF putItemThrows(doc.shapes, resolvedId) THEN d
        ELSE [d EXCEPT !.shapes = putItem(@, resolvedId, token),
                       !.relativeShapes = putItem(@, relative, resolvedId)]

addReference(doc, identifier, token, type) ==
    [doc EXCEPT !.references = Append(@, [token |-> token, identifier |-> identifier, type |-> type])]

validateNamespace(doc) ==
    IF Falsy(doc.namespace) /\ Has(doc.sections, "Shape")
    THEN addMessage(doc,
            "Missing namespace declaration. Namespace 'smithy.api' from Smithy prelude will be used.",
            doc.sections["Shape"], "Warning", FALSE)
    ELSE doc

isKnownReference(identifier) ==
    /\ Falsy(identifier.namespace)
    /\ Falsy(identifier.member)
    /\ (identifier.name \in simpleShapeNames \/ identifier.name \in preludeShapeNames)

\* parsedFiles is the sequence of documents handed to validate.
isExternalShape(doc, identifier, parsedFiles) ==
    \E i \in 1..Len(parsedFiles) :
        /\ \/ ~Falsy(identifier.namespace) /\ parsedFiles[i].namespace = identifier.namespace
           \/ Falsy(identifier.namespace) /\ parsedFiles[i].namespace = doc.namespace
        /\ \/ Has(parsedFiles[i].relativeShapes, toRelative(identifier))
           \/ Inherited(parsedFiles[i].relativeShapes, toRelative(identifier))

\* The loop of validateReferences over references[from..].
RECURSIVE validateReferencesFrom(_, _, _)
validateReferencesFrom(doc, parsedFiles, from) ==
    IF from > Len(doc.references) THEN doc
    ELSE LET reference == doc.references[from]
             resolvedId == PropertyKey(resolveId(doc, reference.identifier))
             d == IF /\ ~Has(doc.shapes, resolvedId)
                     /\ ~Inherited(doc.shapes, resolvedId)
                     /\ ~isKnownReference(reference.identifier)
                     /\ ~isExternalShape(doc, reference.identifier, parsedFiles)
                  THEN addMessage(doc, "Unknown shape.", reference.token, "Error", FALSE)
                  ELSE doc
         IN  validateReferencesFrom(d, parsedFiles, from + 1)

validateReferences(doc, parsedFiles) ==
    validateReferencesFrom([doc EXCEPT !.references = SortReferences(@)], parsedFiles, 1)

\* A validate that keeps the diagnostics of the run before.
validateNoTruncate(doc, parsedFiles) ==
    validateReferences(validateNamespace(doc), parsedFiles)

\* A validate that counts its own diagnostics as parse-time ones.
validateRecount(doc, parsedFiles) ==
    LET d == validateReferences(
                validateNamespace([doc EXCEPT !.messages = SubSeq(@, 1, doc.parsedMessageCount)]),
                parsedFiles)
    IN  [d EXCEPT !.parsedMessageCount = Len(d.messages)]

validate(doc, parsedFiles) ==
    validateReferences(
        validateNamespace([doc EXCEPT !.messages = SubSeq(@, 1, doc.parsedMessageCount)]),
        parsedFiles)

-----------------------------------------------------------------------------
(* Lexer.getTokens as the sequence the generator yields.                    *)

\* skipUntil(/\n/) when a line feed lies ahead: the position of that feed.
RECURSIVE skipUntil(_, _)
skipUntil(src, pos) ==
    IF char(src, pos) = LF THEN pos ELSE skipUntil(src, advance(src, pos))

\* One pass of `while (!this.ended())` in getTokens, on the generator's state
\* [pos, tokens, hangs, done]: tokens are the ones yielded so far, hangs tells
\* that the generator never finishes (skipUntil runs past the end of the
\* text), done that it has returned or hangs.
lexPass(src, st) ==
    IF st.done THEN st
    ELSE Let(skipWhitespace(src, st.pos), LAMBDA space :
         IF ended(src, st.pos) \/ space.returned THEN [st EXCEPT !.done = TRUE]
         ELSE LET at == space.pos
                  Yield(token) ==
                    [st EXCEPT !.pos = token.range.end, !.tokens = Append(@, token)]
              IN  Let(branch(src, at), LAMBDA b :
                  CASE b = "comment" ->
                        LET p == commentStart(src, at)
                        IN  IF EndOfLine(src, p.index) >= Len(src)
                            THEN [st EXCEPT !.hangs = TRUE, !.done = TRUE]
                            ELSE [st EXCEPT !.pos = advance(src, skipUntil(src, p))]
                    [] b = "linebreak" -> [st EXCEPT !.pos = lineBreakEnd(src, at)]
                    [] b = "delimiter" -> Yield(yieldDelimiter(src, at))
                    [] b = "string" ->
                        Let(stringLoop(src, at, ""), LAMBDA string :
                            IF string.done
                            THEN Yield(yieldString(src, at))
                            ELSE [st EXCEPT !.pos = string.pos])
                    [] b = "number" -> Yield(yieldNumber(src, at))
                    [] b = "identifier" -> Yield(yieldIdentifier(src, at))
                    [] OTHER -> Yield(yieldError(src, at))))

\* 2^k passes of the loop, one after the other.
RECURSIVE lexPasses(_, _, _)
lexPasses(src, k, st) ==
    IF k = 0 THEN lexPass(src, st)
    ELSE Strict(lexPasses(src, k - 1, st), LAMBDA half : lexPasses(src, k - 1, half))

\* The least k with 2^k >= n.
RECURSIVE Doublings(_)
Doublings(n) == IF n <= 1 THEN 0 ELSE 1 + Doublings((n + 1) \div 2)

\* The tokens getTokens yields from pos on, in order, and whether it hangs.
\* Every pass but the last moves on in the text, so Len(src) + 1 passes end
\* the loop.
getTokens(src, pos) ==
    Let(lexPasses(src, Doublings(Len(src) + 1),
                  [pos |-> pos, tokens |-> <<>>, hangs |-> FALSE, done |-> FALSE]),
        LAMBDA st : [tokens |-> st.tokens, hangs |-> st.hangs])

-----------------------------------------------------------------------------
(* Parser: the token stream.                                                *)
(* A parser is the record [tokens, hangs, currentToken, parsedDocument,     *)
(* thrown]: tokens is what the generator has still to yield, thrown tells   *)
(* that an exception has left parse().                                      *)

\* Stands for an absent token (undefined).
NoToken ==
    [type |-> "undefined", text |-> undefined,
     range |-> [start |-> StartPosition, end |-> StartPosition], value |-> undefined]

\* The End token advanceToken makes up when there was no token before.
FirstEnd ==
    [type |-> "End", text |-> undefined,
     range |-> [start |-> StartPosition, end |-> StartPosition], value |-> undefined]

\* An advanceToken whose End token starts where the last token ended and is
\* one character long, instead of keeping the last token's range.
advanceTokenMovingEnd(p) ==
    LET lastToken == IF p.currentToken.type # "undefined" THEN p.currentToken ELSE FirstEnd
    IN  IF p.tokens # <<>>
        THEN [p EXCEPT !.currentToken = Head(p.tokens), !.tokens = Tail(p.tokens)]
        ELSE [p EXCEPT !.currentToken =
                [lastToken EXCEPT !.type = "End",
                                  !.range = [start |-> lastToken.range.end,
                                             end   |-> [lastToken.range.end EXCEPT
                                                            !.index = @ + 1,
                                                            !.column = @ + 1]]]]

advanceToken(p) ==
    LET lastToken == IF p.currentToken.type # "undefined" THEN p.currentToken ELSE FirstEnd
    IN  IF p.tokens # <<>>
        THEN [p EXCEPT !.currentToken = Head(p.tokens), !.tokens = Tail(p.tokens)]
        ELSE [p EXCEPT !.currentToken = [lastToken EXCEPT !.type = "End"]]

\* new Parser(lexer, parsedDocument), for the lexer of text src.  hangs tells
\* that the generator stops answering once tokens are used up.
Parser(src, parsedDocument) ==
    Let(getTokens(src, StartPosition), LAMBDA lexed :
        advanceToken([tokens         |-> lexed.tokens,
                      hangs          |-> lexed.hangs,
                      currentToken   |-> NoToken,
                      parsedDocument |-> parsedDocument,
                      thrown         |-> FALSE]))

isDelimiter(p, value) == p.currentToken.type = "Delimiter" /\ p.currentToken.value = value

\* this.parsedDocument.addMessage(...)
Message(p, text, token, type, after) ==
    [p EXCEPT !.parsedDocument = addMessage(@, text, token, type, after)]

\* expectIdentifier(): the parser after it and the token it returns.
expectIdentifier(p) ==
    IF p.currentToken.type = "Identifier"
    THEN [p |-> advanceToken(p), token |-> p.currentToken]
    ELSE [p |-> p, token |-> NoToken]

-----------------------------------------------------------------------------
(* Parser: nodes.                                                           *)
(* A Node is the record [defined, hasKey, key, kind, value, hasToken,       *)
(* token]: defined is FALSE for undefined; kind is typeof value, told apart *)
(* further into "object" and "array".  An object value is the sequence of   *)
(* its properties <<name, pair>> in insertion order.                        *)

NoKey == [value |-> undefined, token |-> NoToken]

UndefinedNode ==
    [defined |-> FALSE, hasKey |-> FALSE, key |-> NoKey, kind |-> "undefined",
     value |-> undefined, hasToken |-> FALSE, token |-> NoToken]

\* { value, token }
ValueNode(kind, value, token) ==
    [defined |-> TRUE, hasKey |-> FALSE, key |-> NoKey, kind |-> kind,
     value |-> value, hasToken |-> TRUE, token |-> token]

\* { token }
TokenNode(token) ==
    [defined |-> TRUE, hasKey |-> FALSE, key |-> NoKey, kind |-> "undefined",
     value |-> undefined, hasToken |-> TRUE, token |-> token]

\* { key, ...value }: the fields of value, when it is defined, and the key
\* (an undefined key is a property all the same).
PairNode(hasKey, key, value) ==
    [defined |-> TRUE, hasKey |-> hasKey, key |-> key, kind |-> value.kind,
     value |-> value.value, hasToken |-> value.hasToken, token |-> value.token]

LiteralTypes == {"String", "Number", "Identifier"}

\* name is an own property of an object value.
ObjectHas(object, name) == \E i \in 1..Len(object) : object[i][1] = name

\* if (value[name]): an own property holds a pair, an inherited one a function.
ObjectTruthy(object, name) == ObjectHas(object, name) \/ name \in ObjectPrototypeKeys

\* value[name] = pair: a new property goes last, an old one keeps its place.
ObjectSet(object, name, pair) ==
    IF ObjectHas(object, name)
    THEN [i \in 1..Len(object) |-> IF object[i][1] = name THEN <<name, pair>> ELSE object[i]]
    ELSE Append(object, <<name, pair>>)

\* The decimal numeral of a property count (Object.keys(value).length).
RECURSIVE Decimal(_)
Decimal(n) ==
    LET digit == <<"0", "1", "2", "3", "4", "5", "6", "7", "8", "9">>
    IN  IF n < 10 THEN digit[n + 1] ELSE Decimal(n \div 10) \o digit[(n % 10) + 1]

\* A property name that is an array index ("0", "7", "12"): Object.entries
\* lists such properties first, in ascending order.
IsArrayIndex(name) ==
    /\ name # ""
    /\ \A i \in 0..(Len(name) - 1) : CharAt(name, i) \in Digits
    /\ Len(name) > 1 => CharAt(name, 0) # "0"

RECURSIVE DigitsLess(_, _)
DigitsLess(a, b) ==
    IF a = "" THEN FALSE
    ELSE IF Head(a) # Head(b) THEN HexDigitCode[Head(a)] < HexDigitCode[Head(b)]
    ELSE DigitsLess(Tail(a), Tail(b))

IndexLess(a, b) == Len(a) < Len(b) \/ (Len(a) = Len(b) /\ DigitsLess(a, b))

RECURSIVE SortIndexEntries(_)
SortIndexEntries(entries) ==
    IF entries = <<>> THEN <<>>
    ELSE LET least == CHOOSE i \in 1..Len(entries) :
                        \A j \in 1..Len(entries) : ~IndexLess(entries[j][1], entries[i][1])
             rest == SelectSeq([k \in 1..Len(entries) |-> <<k, entries[k]>>],
                               LAMBDA e : e[1] # least)
         IN  <<entries[least]>> \o SortIndexEntries([k \in 1..Len(rest) |-> rest[k][2]])

\* Object.entries(value)
ObjectEntries(object) ==
    SortIndexEntries(SelectSeq(object, LAMBDA e : IsArrayIndex(e[1])))
    \o SelectSeq(object, LAMBDA e : ~IsArrayIndex(e[1]))


\* The value of a decimal digit string.
RECURSIVE DecimalValue(_)
DecimalValue(digits) ==
    IF digits = "" THEN 0
    ELSE 10 * DecimalValue(SubSeq(digits, 1, Len(digits) - 1))
         + valueFromHexChar(SubSeq(digits, Len(digits), Len(digits)))

RECURSIVE StripTens(_, _)
StripTens(coefficient, exponent) ==
    IF coefficient = 0 THEN [coefficient |-> 0, exponent |-> 0]
    ELSE IF coefficient % 10 = 0 THEN StripTens(coefficient \div 10, exponent + 1)
    ELSE [coefficient |-> coefficient, exponent |-> exponent]

\* Number(numeral) for the numerals the lexer builds, as the decimal
\* coefficient * 10^exponent with a coefficient that does not end in 0.
Number(numeral) ==
    LET e == IndexOf(numeral, "e", 0)
        mantissa == IF e < 0 THEN numeral ELSE Substring(numeral, 0, e)
        power == IF e < 0 THEN ""
                 ELSE Substring(numeral, e + 1, Len(numeral))
        negative == power # "" /\ CharAt(power, 0) = "-"
        signed == power # "" /\ CharAt(power, 0) \in Signs
        powerValue == DecimalValue(IF signed THEN Substring(power, 1, Len(power)) ELSE power)
        dot == IndexOf(mantissa, ".", 0)
        whole == IF dot < 0 THEN mantissa ELSE Substring(mantissa, 0, dot)
        fraction == IF dot < 0 THEN "" ELSE Substring(mantissa, dot + 1, Len(mantissa))
    IN  StripTens(DecimalValue(whole \o fraction),
                  (IF negative THEN 0 - powerValue ELSE powerValue) - Len(fraction))

\* if (x) for a node's value.
Truthy(kind, value) ==
    CASE kind = "undefined" -> FALSE
      [] kind = "string" -> value # ""
      [] kind = "number" -> value.coefficient # 0
      [] OTHER -> TRUE

-----------------------------------------------------------------------------
(* Parser: traits, key-value pairs, values, arrays and objects.  Every      *)
(* operator takes the parser and gives the parser after the call; the ones  *)
(* that return a node give [p, node].                                       *)


\* The methods of the Parser call one another through call(name, arguments),
\* defined after them.
RECURSIVE call(_, _)

\* The do-while loop of expectTrait over the arguments in parentheses.
traitArguments(p) ==
    Let(advanceToken(p), LAMBDA a :
        IF isDelimiter(a, ")") THEN a
        ELSE Let(call("expectKeyValuePair", <<a, TRUE, "">>).p, LAMBDA q :
                 IF isDelimiter(q, ",") THEN call("traitArguments", <<q>>) ELSE q))

expectTrait(p, previousToken) ==
    Let(expectIdentifier(p), LAMBDA found :
        IF \/ found.token.type = "undefined"
           \/ CharAt(found.token.text, 0) # "@"
           \/ Len(found.token.text) = 1
        THEN Message(found.p, "Expected trait name.", previousToken, "Error", FALSE)
        ELSE Let([found.p EXCEPT !.parsedDocument =
                    addReference(@, Identifier(Substring(found.token.value, 1,
                                                         Len(found.token.value))),
                                 found.token, "Trait")], LAMBDA p1 :
                 IF isDelimiter(p1, "(")
                 THEN Let(call("traitArguments", <<p1>>), LAMBDA p2 :
                          advanceToken(IF ~isDelimiter(p2, ")")
                                       THEN Message(p2, "Expected ')'.", p2.currentToken,
                                                    "Error", FALSE)
                                       ELSE p2))
                 ELSE p1))

\* The while loop at the head of expectKeyValuePair.
skipTraits(p) ==
    IF p.currentToken.type = "Identifier" /\ CharAt(p.currentToken.value, 0) = "@"
    THEN call("skipTraits", <<call("expectTrait", <<p, p.currentToken>>)>>)
    ELSE p

\* expectKeyValuePair({optionalKey, delimiter}); delimiter "" stands for an
\* option that is left out.
expectKeyValuePair(p, optionalKey, delimiterOption) ==
    Let(call("skipTraits", <<p>>), LAMBDA p0 :
    LET keyToken == p0.currentToken
        literal == keyToken.type \in LiteralTypes
        key == IF literal THEN [value |-> keyToken.value, token |-> keyToken] ELSE NoKey
        delimiter == IF delimiterOption = "" THEN ":" ELSE delimiterOption
    IN  Let(IF literal THEN advanceToken(p0) ELSE p0, LAMBDA p1 :
        LET hasKey == isDelimiter(p1, delimiter)
        IN  Let(IF hasKey THEN advanceToken(p1) ELSE p1, LAMBDA p2 :
            LET token == IF hasKey THEN p2.currentToken ELSE keyToken
                value ==
                    CASE token.type \in LiteralTypes ->
                            [p    |-> IF hasKey THEN advanceToken(p2) ELSE p2,
                             node |-> IF token.type # "Number"
                                      THEN ValueNode("string", token.value, token)
                                      ELSE ValueNode("number", Number(token.value), token)]
                      [] token.type = "Delimiter" /\ token.value = "[" -> call("expectArrayObject", <<p2>>)
                      [] token.type = "Delimiter" /\ token.value = "{" ->
                            call("expectNodeObject", <<p2, token>>)
                      [] token.type = "Delimiter" /\ token.value \notin {"[", "{"} ->
                            [p    |-> Message(p2, "Expected value but found a delimiter. "
                                                  \o token.value,
                                              p2.currentToken, "Error", FALSE),
                             node |-> UndefinedNode]
                      [] OTHER ->
                            [p    |-> Message(p2, "Expected value. " \o token.type,
                                              p2.currentToken, "Error", FALSE),
                             node |-> UndefinedNode]
            IN  IF ~literal /\ ~optionalKey
                THEN [p    |-> Message(p0, "Expected key.", p0.currentToken, "Error", FALSE),
                      node |-> UndefinedNode]
                ELSE IF ~optionalKey /\ ~hasKey
                THEN [p    |-> Message(p1, "Expected '" \o delimiter \o " ([object Object])'.",
                                       p1.currentToken, "Error", FALSE),
                      node |-> ValueNode("undefined", undefined, keyToken)]
                ELSE Let(value, LAMBDA found :
                         [p |-> found.p, node |-> PairNode(literal, key, found.node)]))))

expectValue(p) ==
    LET token == p.currentToken
    IN  CASE token.type \in LiteralTypes -> [p |-> advanceToken(p), node |-> TokenNode(token)]
          [] token.type = "Delimiter" /\ token.value = "[" -> call("expectArrayObject", <<p>>)
          [] token.type = "Delimiter" /\ token.value = "{" -> call("expectNodeObject", <<p, token>>)
          [] token.type = "Delimiter" /\ token.value \notin {"[", "{"} ->
                [p |-> p, node |-> UndefinedNode]
          [] OTHER ->
                [p    |-> Message(p, "Expected value.", p.currentToken, "Error", FALSE),
                 node |-> UndefinedNode]

\* The do-while loop of expectArrayObject: the parser and the items pushed.
arrayItems(p, value) ==
    Let(advanceToken(p), LAMBDA a :
        IF isDelimiter(a, "]") THEN [p |-> a, value |-> value]
        ELSE Let(call("expectValue", <<a>>), LAMBDA item :
                 IF isDelimiter(item.p, ",")
                 THEN call("arrayItems", <<item.p, Append(value, item.node)>>)
                 ELSE [p |-> item.p, value |-> Append(value, item.node)]))

expectArrayObject(p) ==
    IF ~isDelimiter(p, "[")
    THEN [p    |-> Message(p, "Expected '['.", p.currentToken, "Error", FALSE),
          node |-> UndefinedNode]
    ELSE Let(call("arrayItems", <<p, <<>> >>), LAMBDA items :
             [p    |-> advanceToken(IF ~isDelimiter(items.p, "]")
                                    THEN Message(items.p, "Expected ']'.",
                                                 items.p.currentToken, "Error", FALSE)
                                    ELSE items.p),
              node |-> ValueNode("array", items.value, p.currentToken)])

\* The do-while loop of expectNodeObject: the parser and the properties set.
objectPairs(p, value) ==
    Let(advanceToken(p), LAMBDA a :
        IF isDelimiter(a, "}") THEN [p |-> a, value |-> value]
        ELSE Let(call("expectKeyValuePair", <<a, FALSE, "">>), LAMBDA pair :
             LET name == PropertyKey(pair.node.key.value)
                 keyed == pair.node.defined /\ pair.node.hasKey
                 repeated == keyed /\ ObjectTruthy(value, name)
                 set == IF repeated
                        THEN ObjectSet(value, name \o Decimal(Len(value)), pair.node)
                        ELSE IF keyed THEN ObjectSet(value, name, pair.node)
                        ELSE value
             IN  Let(IF repeated
                     THEN Message(pair.p, "Key '" \o name \o "' is already defined.",
                                  pair.node.key.token, "Error", FALSE)
                     ELSE pair.p, LAMBDA p1 :
                     IF isDelimiter(p1, ",")
                     THEN call("objectPairs", <<p1, set>>)
                     ELSE [p |-> p1, value |-> set])))

\* An expectNodeObject that advances over the closing brace only.
expectNodeObjectKeepingToken(p, afterToken) ==
    IF ~isDelimiter(p, "{")
    THEN [p    |-> Message(p, "Expected '{'. " \o p.currentToken.type, afterToken,
                           "Error", afterToken.type # "undefined"),
          node |-> UndefinedNode]
    ELSE Let(call("objectPairs", <<p, <<>> >>), LAMBDA pairs :
             [p    |-> IF ~isDelimiter(pairs.p, "}")
                       THEN Message(pairs.p, "Expected '}'.",
                                    pairs.p.currentToken, "Error", FALSE)
                       ELSE advanceToken(pairs.p),
              node |-> ValueNode("object", pairs.value, p.currentToken)])

expectNodeObject(p, afterToken) ==
    IF ~isDelimiter(p, "{")
    THEN [p    |-> Message(p, "Expected '{'. " \o p.currentToken.type, afterToken,
                           "Error", afterToken.type # "undefined"),
          node |-> UndefinedNode]
    ELSE Let(call("objectPairs", <<p, <<>> >>), LAMBDA pairs :
             [p    |-> advanceToken(IF ~isDelimiter(pairs.p, "}")
                                    THEN Message(pairs.p, "Expected '}'.",
                                                 pairs.p.currentToken, "Error", FALSE)
                                    ELSE pairs.p),
              node |-> ValueNode("object", pairs.value, p.currentToken)])

-----------------------------------------------------------------------------
(* schema.ts: Schema.  A schema is a record with its `type`; NoSchema       *)
(* stands for undefined.  structure is the sequence of <<fieldName,         *)
(* schema>> in the order the object literal lists them.                     *)

NoSchema == [type |-> "undefined"]

\* What schema.structure[fieldName] gives for an inherited name: a function,
\* which is truthy and has no `type`.
InheritedSchema == [type |-> "inherited"]

MemberSchema == [type |-> "member", required |-> FALSE]

IdentifierSchema == [type |-> "identifier", required |-> FALSE]

StringSchema(required) == [type |-> "string", required |-> required]

ListSchema(member) == [type |-> "list", required |-> FALSE, member |-> member]

MapSchema(key, value) == [type |-> "map", required |-> FALSE, key |-> key, value |-> value]

StructureSchema(hasStructure, structure, anyMember) ==
    [type |-> "structure", required |-> FALSE, hasStructure |-> hasStructure,
     structure |-> structure, anyMember |-> anyMember]

aggregateShapeNames ==
    {"list", "set", "map", "structure", "union", "service", "operation", "resource"}

\* Schema[name] for the names of the aggregate and service shape statements.
Schema(name) ==
    CASE name \in {"list", "set"} ->
            StructureSchema(TRUE, << <<"member", MemberSchema>> >>, NoSchema)
      [] name = "map" ->
            StructureSchema(TRUE, << <<"key", MemberSchema>>, <<"value", MemberSchema>> >>,
                            NoSchema)
      [] name \in {"structure", "union"} -> StructureSchema(FALSE, <<>>, MemberSchema)
      [] name = "service" ->
            StructureSchema(TRUE,
                << <<"version", StringSchema(TRUE)>>,
                   <<"operations", ListSchema(MemberSchema)>>,
                   <<"resources", ListSchema(MemberSchema)>>,
                   <<"rename", MapSchema(StringSchema(FALSE), StringSchema(FALSE))>> >>,
                NoSchema)
      [] name = "operation" ->
            StructureSchema(TRUE,
                << <<"input", MemberSchema>>,
                   <<"output", MemberSchema>>,
                   <<"errors", ListSchema(MemberSchema)>> >>,
                NoSchema)
      [] name = "resource" ->
            StructureSchema(TRUE,
                << <<"identifiers", MapSchema(IdentifierSchema, MemberSchema)>>,
                   <<"create", MemberSchema>>,
                   <<"put", MemberSchema>>,
                   <<"read", MemberSchema>>,
                   <<"update", MemberSchema>>,
                   <<"delete", MemberSchema>>,
                   <<"list", MemberSchema>>,
                   <<"operations", ListSchema(MemberSchema)>>,
                   <<"collectionOperations", ListSchema(MemberSchema)>>,
                   <<"resources", ListSchema(MemberSchema)>> >>,
                NoSchema)
      [] OTHER -> NoSchema

\* schema.structure[fieldName]
FieldSchema(structure, fieldName) ==
    IF \E i \in 1..Len(structure) : structure[i][1] = fieldName
    THEN structure[CHOOSE i \in 1..Len(structure) : structure[i][1] = fieldName][2]
    ELSE IF fieldName \in ObjectPrototypeKeys THEN InheritedSchema
    ELSE NoSchema

-----------------------------------------------------------------------------
(* Parser: validation of a node against a schema, members.                  *)

\* JSON.stringify(node), cut short after the first property name.
stringify(node) ==
    IF ~node.defined THEN "undefined"
    ELSE IF node.hasKey THEN "{\"key\":...}"
    ELSE "{...}"

addMemberReference(p, value) ==
    IF ~value.defined THEN p
    ELSE IF value.token.type = "Identifier"
    THEN [p EXCEPT !.parsedDocument =
            addReference(@, Identifier(value.token.value), value.token, "Member")]
    ELSE Message(p, "Expected shape identifier.", value.token, "Error", FALSE)

\* fieldValue.token ?? identifierToken
TokenOr(node, identifierToken) == IF node.hasToken THEN node.token ELSE identifierToken

\* A key as the node it is: { value, token }.
KeyNode(key) == ValueNode("string", key.value, key.token)


\* for (const [fieldName, fieldSchema] of Object.entries(schema.structure))
requiredMembers(p, identifierToken, node, schema, i) ==
    IF i > Len(schema.structure) THEN p
    ELSE LET fieldName == schema.structure[i][1]
             fieldSchema == schema.structure[i][2]
             p1 == IF fieldSchema.required /\ ~ObjectTruthy(node.value, fieldName)
                   THEN Message(p, "Missing '" \o fieldName \o "' member.",
                                identifierToken, "Error", FALSE)
                   ELSE p
         IN  call("requiredMembers", <<p1, identifierToken, node, schema, i + 1>>)

\* The first loop over Object.entries(node.value), run when schema.structure
\* is there.
structureMembers(p, identifierToken, entries, schema, i) ==
    IF i > Len(entries) \/ p.thrown THEN p
    ELSE LET fieldName == entries[i][1]
             fieldValue == entries[i][2]
             fieldSchema == IF schema.anyMember.type # "undefined" THEN schema.anyMember
                            ELSE FieldSchema(schema.structure, fieldName)
             p1 == IF fieldSchema.type = "undefined"
                   THEN Message(p, "Unexpected member '" \o fieldName \o "'.",
                                IF fieldValue.hasKey THEN fieldValue.key.token
                                ELSE identifierToken,
                                "Error", FALSE)
                   ELSE call("validateValueAgainstSchema", <<p, TokenOr(fieldValue, identifierToken),
                                                   fieldValue, fieldSchema>>)
         IN  call("structureMembers", <<p1, identifierToken, entries, schema, i + 1>>)

\* The second loop over Object.entries(node.value), against schema.anyMember.
anyMembers(p, identifierToken, entries, schema, i) ==
    IF i > Len(entries) \/ p.thrown THEN p
    ELSE call("anyMembers", <<call("validateValueAgainstSchema", <<p, TokenOr(entries[i][2], identifierToken),
                                               entries[i][2], schema.anyMember>>),
                    identifierToken, entries, schema, i + 1>>)

\* for (const itemValue of node.value): reading itemValue.token of an
\* undefined item throws a TypeError.
listItems(p, identifierToken, items, schema, i) ==
    IF i > Len(items) \/ p.thrown THEN p
    ELSE IF ~items[i].defined THEN [p EXCEPT !.thrown = TRUE]
    ELSE call("listItems", <<call("validateValueAgainstSchema", <<p, TokenOr(items[i], identifierToken),
                                              items[i], schema.member>>),
                   identifierToken, items, schema, i + 1>>)

mapEntries(p, identifierToken, entries, schema, i) ==
    IF i > Len(entries) \/ p.thrown THEN p
    ELSE LET fieldValue == entries[i][2]
         IN  Let(call("validateValueAgainstSchema", <<p, fieldValue.key.token,
                                            KeyNode(fieldValue.key), schema.key>>), LAMBDA p1 :
                 call("mapEntries", <<IF p1.thrown THEN p1
                            ELSE call("validateValueAgainstSchema", <<
                                    p1, TokenOr(fieldValue, identifierToken),
                                    fieldValue, schema.value>>),
                            identifierToken, entries, schema, i + 1>>))

validateValueAgainstSchema(p, identifierToken, node, schema) ==
    IF schema.type = "undefined" THEN p
    ELSE IF ~node.defined \/ ~node.hasToken
    THEN Message(p, "Expected a value." \o stringify(node), identifierToken, "Error", FALSE)
    ELSE CASE schema.type = "identifier" ->
                IF node.token.type # "Identifier"
                THEN Message(p, "Expected an identifier.", node.token, "Error", FALSE)
                ELSE p
           [] schema.type = "member" ->
                IF node.token.type # "Identifier"
                THEN Message(p, "Expected an identifier.", node.token, "Error", FALSE)
                ELSE addMemberReference(p, node)
           [] schema.type = "structure" ->
                IF node.token.type # "Delimiter" \/ node.token.value # "{"
                THEN Message(p, "Expected an object.", node.token, "Error", FALSE)
                ELSE LET entries == ObjectEntries(node.value)
                         p1 == IF schema.hasStructure
                               THEN call("structureMembers", <<
                                        call("requiredMembers", <<p, identifierToken, node, schema, 1>>),
                                        identifierToken, entries, schema, 1>>)
                               ELSE p
                     IN  call("anyMembers", <<p1, identifierToken, entries, schema, 1>>)
           [] schema.type = "list" ->
                IF \/ node.token.type # "Delimiter"
                   \/ node.token.value # "["
                   \/ node.kind # "array"
                THEN Message(p, "Expected a list.", node.token, "Error", FALSE)
                ELSE call("listItems", <<p, identifierToken, node.value, schema, 1>>)
           [] schema.type = "map" ->
                IF node.token.type # "Delimiter" \/ node.token.value # "{"
                THEN Message(p, "Expected a map.", node.token, "Error", FALSE)
                ELSE call("mapEntries", <<p, identifierToken, ObjectEntries(node.value), schema, 1>>)
           [] schema.type = "string" ->
                IF node.token.type # "String"
                THEN Message(p, "Expected a string.", node.token, "Error", FALSE)
                ELSE p
           [] OTHER ->
                Message(p, "Not implemented yet "
                           \o (IF schema.type = "inherited" THEN "undefined" ELSE schema.type)
                           \o ".",
                        node.token, "Error", FALSE)

\* addShape and the addReference that follows it; an addShape that throws
\* leaves parse() with the document as it is at the throw.
defineShape(p, identifier, token, type) ==
    IF addShapeThrows(p.parsedDocument, identifier)
    THEN [p EXCEPT !.parsedDocument = addShape(@, identifier, token), !.thrown = TRUE]
    ELSE [p EXCEPT !.parsedDocument =
            addReference(addShape(@, identifier, token), identifier, token, type)]

\* An addMember that registers the member on the token of the shape's name.
addMemberOnShapeToken(p, identifier, identifierToken, value) ==
    defineShape(p, forMember(identifier, value.key.token.value), identifierToken, "Shape")

addMember(p, identifier, identifierToken, value) ==
    defineShape(p, forMember(identifier, value.key.token.value), value.key.token, "Shape")

\* for (const [fieldName, fieldValue] of Object.entries(node.value)) addMember
addMembers(p, identifier, identifierToken, entries, i) ==
    IF i > Len(entries) \/ p.thrown THEN p
    ELSE call("addMembers", <<addMember(p, identifier, identifierToken, entries[i][2]),
                    identifier, identifierToken, entries, i + 1>>)

-----------------------------------------------------------------------------
(* Parser: control statements and the statements of parse().                *)

\* value.match(/^[0-9](?:\.[0-9])?$/)
MatchesVersion(value) ==
    \/ Len(value) = 1 /\ CharAt(value, 0) \in Digits
    \/ /\ Len(value) = 3
       /\ CharAt(value, 0) \in Digits
       /\ CharAt(value, 1) = "."
       /\ CharAt(value, 2) \in Digits

\* What metadata[name] and controls[name] hold: the value of a node.
StoredValue(node) == [kind |-> node.kind, value |-> node.value]

\* if (map[name])
HoldsTruthy(map, name) ==
    \/ Has(map, name) /\ Truthy(map[name].kind, map[name].value)
    \/ Inherited(map, name)

expectControlStatement(p) ==
    Let(IF CharAt(p.currentToken.value, 0) # "$"
        THEN Message(p, "Expected control statement key.", p.currentToken, "Error", FALSE)
        ELSE p, LAMBDA p0 :
    LET separatedPrefix == Len(p0.currentToken.value) = 1
    IN  Let(call("expectKeyValuePair", <<IF separatedPrefix THEN advanceToken(p0) ELSE p0, FALSE, "">>),
            LAMBDA pair :
        LET node == pair.node
            p2 == pair.p
            keyNode == node.key
            keyValue == IF ~separatedPrefix /\ node.hasKey /\ keyNode.token.type = "Identifier"
                        THEN Substring(keyNode.value, 1, Len(keyNode.value))
                        ELSE keyNode.value
            name == PropertyKey(keyValue)
            nodeToken == IF node.hasToken THEN node.token ELSE p2.currentToken
            keyToken == IF node.hasKey THEN keyNode.token ELSE p2.currentToken
        IN  Let(IF keyValue = "version"
                THEN IF node.kind # "string"
                     THEN Message(p2, "Version value must be a string.", nodeToken,
                                  "Error", FALSE)
                     ELSE IF ~MatchesVersion(node.value)
                     THEN Message(p2,
                            "Version value must be in format 'major' or 'major.minor'.",
                            nodeToken, "Error", FALSE)
                     ELSE p2
                ELSE Message(p2, "Only 'version' is supported.", keyToken, "Warning", FALSE),
                LAMBDA p3 :
            Let(IF HoldsTruthy(p3.parsedDocument.controls, name)
                THEN Message(p3, "Control '" \o name \o "' is already defined.", keyToken,
                             "Error", FALSE)
                ELSE p3, LAMBDA p4 :
                [p4 EXCEPT !.parsedDocument.controls = Put(@, name, StoredValue(node))]))))

\* this.parsedDocument.enterSection(section, token)
EnterSection(p, section, token) ==
    [p EXCEPT !.parsedDocument = enterSection(@, section, token)]

\* case 'metadata'
parseMetadata(p) ==
    Let(call("expectKeyValuePair", <<advanceToken(EnterSection(p, "Metadata", p.currentToken)),
                           FALSE, "=">>), LAMBDA pair :
        LET node == pair.node
            name == PropertyKey(node.key.value)
        IN  Let(IF HoldsTruthy(pair.p.parsedDocument.metadata, name)
                THEN Message(pair.p, "Metadata '" \o name \o "' is already defined.",
                             IF node.hasKey THEN node.key.token ELSE pair.p.currentToken,
                             "Warning", FALSE)
                ELSE pair.p, LAMBDA p1 :
                [p1 EXCEPT !.parsedDocument.metadata = Put(@, name, StoredValue(node))]))

\* case 'namespace'
\* The namespace case with the assignment kept for the first namespace only.
parseNamespaceKeepingFirst(p) ==
    Let(EnterSection(p, "Shape", p.currentToken), LAMBDA p0 :
        LET namespaceToken == p0.currentToken
        IN  Let(advanceToken(IF p0.parsedDocument.namespace # undefined
                             THEN Message(p0,
                                    "Namespace was already defined as '[object Object]'.",
                                    namespaceToken, "Error", FALSE)
                             ELSE p0), LAMBDA p2 :
                IF p2.currentToken.type # "Identifier"
                THEN Message(p2, "Expected namespace.", namespaceToken, "Error", FALSE)
                ELSE advanceToken(IF p0.parsedDocument.namespace # undefined THEN p2
                                  ELSE [p2 EXCEPT !.parsedDocument.namespace =
                                            p2.currentToken.value])))

parseNamespace(p) ==
    Let(EnterSection(p, "Shape", p.currentToken), LAMBDA p0 :
        LET namespaceToken == p0.currentToken
        IN  Let(advanceToken(IF p0.parsedDocument.namespace # undefined
                             THEN Message(p0,
                                    "Namespace was already defined as '[object Object]'.",
                                    namespaceToken, "Error", FALSE)
                             ELSE p0), LAMBDA p2 :
                IF p2.currentToken.type # "Identifier"
                THEN Message(p2, "Expected namespace.", namespaceToken, "Error", FALSE)
                ELSE advanceToken([p2 EXCEPT !.parsedDocument.namespace =
                                        p2.currentToken.value])))

\* case 'use'
parseUse(p) ==
    Let(expectIdentifier(advanceToken(EnterSection(p, "Shape", p.currentToken))),
        LAMBDA found :
        IF found.token.type = "undefined"
        THEN Message(found.p, "Expected shape ID.", p.currentToken, "Error", TRUE)
        ELSE Let(Identifier(found.token.value), LAMBDA identifier :
             Let(IF identifier.namespace = undefined
                 THEN Message(found.p, "Shape ID must be absolute.", found.token,
                              "Error", FALSE)
                 ELSE IF identifier.namespace = ""
                 THEN Message(found.p, "Missing namespace.", found.token, "Error", FALSE)
                 ELSE found.p, LAMBDA p1 :
                 defineShape(IF identifier.member # undefined
                             THEN Message(p1,
                                    "Shapes IDs with member names cannot be imported with a use statement.",
                                    found.token, "Error", FALSE)
                             ELSE p1,
                             identifier, found.token, "Use"))))

\* case 'apply'
parseApply(p) ==
    Let(expectIdentifier(advanceToken(EnterSection(p, "Shape", p.currentToken))),
        LAMBDA found :
        IF found.token.type = "undefined"
        THEN Message(found.p, "Expected shape ID.", p.currentToken, "Error", TRUE)
        ELSE call("expectTrait", <<[found.p EXCEPT !.parsedDocument =
                            addReference(@, Identifier(found.token.value), found.token,
                                         "Apply")],
                         p.currentToken>>))

\* case AggregateShapes.List ... ServiceShapes.Resource
parseAggregate(p) ==
    LET statementToken == p.currentToken
    IN  Let(expectIdentifier(advanceToken(EnterSection(p, "Shape", statementToken))),
            LAMBDA found :
        LET named == found.token.type # "undefined"
        IN  Let(call("expectNodeObject", <<IF ~named
                                 THEN Message(found.p,
                                        "Expected " \o statementToken.value \o " name.",
                                        statementToken, "Error", TRUE)
                                 ELSE found.p,
                                 IF named THEN found.token ELSE statementToken>>),
                LAMBDA object :
            IF ~named THEN object.p
            ELSE Let(Identifier(found.token.value), LAMBDA identifier :
                 Let(defineShape(object.p, identifier, found.token, "Shape"), LAMBDA p2 :
                     IF p2.thrown \/ ~object.node.defined THEN p2
                     ELSE Let(call("validateValueAgainstSchema", <<p2, found.token, object.node,
                                                         Schema(statementToken.value)>>),
                              LAMBDA p3 :
                              IF p3.thrown THEN p3
                              ELSE call("addMembers", <<p3, identifier, found.token,
                                              ObjectEntries(object.node.value), 1>>))))))

\* case SimpleShapes.String ... SimpleShapes.Timestamp
parseSimple(p) ==
    Let(expectIdentifier(advanceToken(EnterSection(p, "Shape", p.currentToken))),
        LAMBDA found :
        IF found.token.type = "undefined"
        THEN Message(found.p, "Expected " \o p.currentToken.value \o " name.",
                     p.currentToken, "Error", TRUE)
        ELSE defineShape(found.p, Identifier(found.token.value), found.token, "Shape"))

\* default: case '@'
parseTrait(p) == call("expectTrait", <<p, p.currentToken>>)

\* default: case '$'
parseControl(p) == expectControlStatement(EnterSection(p, "Control", p.currentToken))

\* default: default
parseUnexpectedIdentifier(p) ==
    advanceToken(Message(p, "Unexpected identifier: " \o p.currentToken.value,
                         p.currentToken, "Error", FALSE))

\* encodeURIComponent(value) for the characters a lexed text is made of.
encodeURIComponent(value) ==
    LET Unreserved == LowerLetters \cup UpperLetters \cup Digits
                      \cup {"-", "_", ".", "!", "~", "*", "'", "(", ")"}
        Escape(c) == CASE c = " " -> "%20" [] c = "\"" -> "%22" [] c = "#" -> "%23"
                       [] c = "$" -> "%24" [] c = "," -> "%2C" [] c = "/" -> "%2F"
                       [] c = ":" -> "%3A" [] c = "=" -> "%3D" [] c = "@" -> "%40"
                       [] c = "[" -> "%5B" [] c = "]" -> "%5D" [] c = "{" -> "%7B"
                       [] c = "}" -> "%7D" [] c = LF -> "%0A" [] c = CR -> "%0D"
                       [] c = "+" -> "%2B" [] c = "\\" -> "%5C" [] c = "\t" -> "%09"
                       [] OTHER -> "%3F"
        RECURSIVE Encode(_)
        Encode(i) == IF i >= Len(value) THEN ""
                     ELSE (IF CharAt(value, i) \in Unreserved THEN CharAt(value, i)
                           ELSE Escape(CharAt(value, i))) \o Encode(i + 1)
    IN  Encode(0)

\* A round of the loop that reports an unexpected token and leaves it the
\* look-ahead.
parseUnexpectedTokenNoAdvance(p) ==
    Message(p, "Unexpected token: " \o p.currentToken.value
               \o " (" \o encodeURIComponent(p.currentToken.value) \o ")",
            p.currentToken, "Error", FALSE)

\* The outer default: a token that is no identifier.
parseUnexpectedToken(p) ==
    advanceToken(Message(p, "Unexpected token: " \o p.currentToken.value
                            \o " (" \o encodeURIComponent(p.currentToken.value) \o ")",
                         p.currentToken, "Error", FALSE))

\* Which case of the two switches a statement token takes.
statementBranch(statementToken) ==
    IF statementToken.type # "Identifier" THEN "token"
    ELSE CASE statementToken.value = "metadata" -> "metadata"
           [] statementToken.value = "namespace" -> "namespace"
           [] statementToken.value = "use" -> "use"
           [] statementToken.value = "apply" -> "apply"
           [] statementToken.value \in aggregateShapeNames -> "aggregate"
           [] statementToken.value \in simpleShapeNames -> "simple"
           [] OTHER -> IF CharAt(statementToken.value, 0) = "@" THEN "trait"
                       ELSE IF CharAt(statementToken.value, 0) = "$" THEN "control"
                       ELSE "identifier"

-----------------------------------------------------------------------------
(* SpecTokens: the Parser's token stream, advanceToken called again and     *)
(* again over every short text; the first call is the constructor's.        *)

TokensInit ==
    /\ source \in Texts(LexChars, MaxLen)
    /\ position = StartPosition
    /\ lexpc = "loop"
    /\ yielded = <<>>
    /\ parser = [tokens         |-> getTokens(source, StartPosition).tokens,
                 hangs          |-> getTokens(source, StartPosition).hangs,
                 currentToken   |-> NoToken,
                 parsedDocument |-> ParsedDocument("file:///a.smithy"),
                 thrown         |-> FALSE]
    /\ phase = "tokens"
    /\ parsedMessages = <<>>
    /\ validatedWith = 0
    /\ repeats = 0
    /\ calls = 0
    /\ ModelIdle

\* advanceToken(): a call returns unless the generator is asked for a token
\* it never comes to yield.
AdvanceToken ==
    /\ phase = "tokens"
    /\ calls < MaxCalls
    /\ parser.tokens # <<>> \/ ~parser.hangs
    /\ parser' = advanceToken(parser)
    /\ calls' = calls + 1
    /\ UNCHANGED <<lexVars, modelVars, phase, parsedMessages, validatedWith, repeats>>

TokensNext == AdvanceToken

SpecTokens == TokensInit /\ [][TokensNext]_vars

-----------------------------------------------------------------------------
(* SpecParser: Model.parseDocument on texts put together from statements    *)
(* and pieces of statements, one round of the loop of parse() per step,     *)
(* and validate() against sets of documents afterwards.                     *)

\* What the texts of SpecParser are put together from, one piece a line.
Statements ==
    {"namespace a",
     "use a#Foo",
     "use b#Foo",
     "string Foo",
     "string toString",
     "structure S { m: Foo }",
     "operation O { errors: [ , ] }",
     "apply Foo @t(",
     "apply toString @t",
     "@required",
     "$version: \"1\"",
     "metadata k = 1",
     "structure",
     "x }"}

RECURSIVE Lines(_, _)
Lines(statements, n) ==
    IF n = 0 THEN {""}
    ELSE LET shorter == Lines(statements, n - 1)
         IN  shorter \cup {(IF t = "" THEN "" ELSE t \o "\n") \o st :
                              t \in shorter, st \in statements}

\* Model.parseDocument up to the call of parse().
NewParser(text) == Parser(text, ParsedDocument("file:///a.smithy"))

ParserInit ==
    /\ source \in Lines(Statements, MaxStatements)
    /\ ~getTokens(source, StartPosition).hangs
    /\ position = StartPosition
    /\ lexpc = "loop"
    /\ yielded = <<>>
    /\ parser = NewParser(source)
    /\ phase = "parse"
    /\ parsedMessages = <<>>
    /\ validatedWith = 0
    /\ repeats = 0
    /\ calls = 0
    /\ ModelIdle

\* A round of `while (this.token()?.type !== TokenType.End)` that takes the
\* given case; a round that throws leaves parse().
Round(name, after) ==
    /\ phase = "parse"
    /\ parser.currentToken.type # "End"
    /\ statementBranch(parser.currentToken) = name
    /\ parser' = after
    /\ phase' = IF after.thrown THEN "thrown" ELSE "parse"
    /\ UNCHANGED <<lexVars, modelVars, parsedMessages, validatedWith, repeats, calls>>

ParseMetadata == Round("metadata", parseMetadata(parser))
ParseNamespace == Round("namespace", parseNamespace(parser))
ParseUse == Round("use", parseUse(parser))
ParseApply == Round("apply", parseApply(parser))
ParseAggregate == Round("aggregate", parseAggregate(parser))
ParseSimple == Round("simple", parseSimple(parser))
ParseTrait == Round("trait", parseTrait(parser))
ParseControl == Round("control", parseControl(parser))
ParseUnexpectedIdentifier == Round("identifier", parseUnexpectedIdentifier(parser))
ParseUnexpectedToken == Round("token", parseUnexpectedToken(parser))

\* The loop of parse() ends: this.parsedDocument.finishParsing().
FinishParsing ==
    /\ phase = "parse"
    /\ parser.currentToken.type = "End"
    /\ parser' = [parser EXCEPT !.parsedDocument = finishParsing(@)]
    /\ parsedMessages' = parser.parsedDocument.messages
    /\ phase' = "finished"
    /\ UNCHANGED <<lexVars, modelVars, validatedWith, repeats, calls>>

\* The parsed form of a text, for the documents validate() is given.
parse(p) ==
    IF p.thrown THEN p
    ELSE IF p.currentToken.type = "End"
    THEN [p EXCEPT !.parsedDocument = finishParsing(@)]
    ELSE LET name == statementBranch(p.currentToken)
         IN  call("parse", <<CASE name = "metadata" -> parseMetadata(p)
                     [] name = "namespace" -> parseNamespace(p)
                     [] name = "use" -> parseUse(p)
                     [] name = "apply" -> parseApply(p)
                     [] name = "aggregate" -> parseAggregate(p)
                     [] name = "simple" -> parseSimple(p)
                     [] name = "trait" -> parseTrait(p)
                     [] name = "control" -> parseControl(p)
                     [] name = "identifier" -> parseUnexpectedIdentifier(p)
                     [] OTHER -> parseUnexpectedToken(p)>>)

\* call(name, arguments) is name(arguments), for the methods of the Parser
\* that call one another.
call(name, a) ==
    CASE name = "expectTrait" -> expectTrait(a[1], a[2])
      [] name = "traitArguments" -> traitArguments(a[1])
      [] name = "skipTraits" -> skipTraits(a[1])
      [] name = "expectKeyValuePair" -> expectKeyValuePair(a[1], a[2], a[3])
      [] name = "expectValue" -> expectValue(a[1])
      [] name = "arrayItems" -> arrayItems(a[1], a[2])
      [] name = "expectArrayObject" -> expectArrayObject(a[1])
      [] name = "objectPairs" -> objectPairs(a[1], a[2])
      [] name = "expectNodeObject" -> expectNodeObject(a[1], a[2])
      [] name = "validateValueAgainstSchema" ->
            validateValueAgainstSchema(a[1], a[2], a[3], a[4])
      [] name = "requiredMembers" -> requiredMembers(a[1], a[2], a[3], a[4], a[5])
      [] name = "structureMembers" -> structureMembers(a[1], a[2], a[3], a[4], a[5])
      [] name = "anyMembers" -> anyMembers(a[1], a[2], a[3], a[4], a[5])
      [] name = "listItems" -> listItems(a[1], a[2], a[3], a[4], a[5])
      [] name = "mapEntries" -> mapEntries(a[1], a[2], a[3], a[4], a[5])
      [] name = "addMembers" -> addMembers(a[1], a[2], a[3], a[4], a[5])
      [] name = "parse" -> parse(a[1])

parseDocument(uri, text) == call("parse", <<Parser(text, ParsedDocument(uri))>>).parsedDocument

\* Other documents of the workspace: one in namespace a and one without a
\* namespace, each defining Foo.
InNamespaceA == parseDocument("file:///b.smithy", "namespace a\nstring Foo")
WithoutNamespace == parseDocument("file:///c.smithy", "string Foo")

\* The document sets validate() is given, numbered: the sub-sequences of
\* the document itself and the two others.
DocumentSets(self) ==
    Let(InNamespaceA, LAMBDA a :
    Let(WithoutNamespace, LAMBDA c :
        << <<>>,
           <<self>>,
           <<a>>,
           <<c>>,
           <<self, a>>,
           <<self, c>>,
           <<a, c>>,
           <<self, a, c>> >>))

\* parsedDocument.validate(allDocuments), any number of times after parse()
\* has returned.
Validate ==
    /\ phase \in {"finished", "validated"}
    /\ \E i \in 1..Len(DocumentSets(parser.parsedDocument)) :
            /\ parser' = [parser EXCEPT !.parsedDocument =
                            validate(@, DocumentSets(parser.parsedDocument)[i])]
            /\ validatedWith' = i
            /\ repeats' = IF validatedWith = i THEN Min(repeats + 1, MaxRepeats) ELSE 1
    /\ phase' = "validated"
    /\ UNCHANGED <<lexVars, modelVars, parsedMessages, calls>>

ParserNext ==
    \/ ParseMetadata
    \/ ParseNamespace
    \/ ParseUse
    \/ ParseApply
    \/ ParseAggregate
    \/ ParseSimple
    \/ ParseTrait
    \/ ParseControl
    \/ ParseUnexpectedIdentifier
    \/ ParseUnexpectedToken
    \/ FinishParsing
    \/ Validate

SpecParser == ParserInit /\ [][ParserNext]_vars

-----------------------------------------------------------------------------
(* Claims about the Parser's token stream and the loop of parse().          *)

\* How far the look-ahead is in the token sequence of the text: the number
\* of the token it is, and one past the last for End.
LookAhead(p) ==
    IF p.currentToken.type = "End"
    THEN Len(getTokens(source, StartPosition).tokens) + 1
    ELSE Len(getTokens(source, StartPosition).tokens) - Len(p.tokens)

\* C5: parse() terminates and every round of its statement loop consumes
\* a token: a round, whatever case it takes and whether it returns to the
\* loop or throws, leaves the look-ahead strictly later in the token
\* sequence than it found it and never past End, so a text of n tokens is
\* parsed in at most n rounds.
C5_ParseTerminates ==
    [][phase = "parse" /\ phase' \in {"parse", "thrown"}
        => /\ LookAhead(parser') > LookAhead(parser)
           /\ LookAhead(parser') <= Len(getTokens(source, StartPosition).tokens) + 1]_vars

\* parse() has returned from a text of malformed statements with several
\* diagnostics.
C5_Witness ==
    /\ phase = "finished"
    /\ Len(parsedMessages) >= 3
    /\ Len(getTokens(source, StartPosition).tokens) >= 6
    /\ \E i \in 1..Len(parsedMessages) : parsedMessages[i].text = "Expected ')'."

\* C6: once advanceToken has returned an End token, every later call
\* returns an End token of the same range.
C6_EndIsAbsorbing ==
    [][parser.currentToken.type = "End"
        => /\ parser'.currentToken.type = "End"
           /\ parser'.currentToken.range = parser.currentToken.range]_vars

\* advanceToken has returned End three times in a row, after real tokens.
C6_Witness ==
    /\ phase = "tokens"
    /\ parser.currentToken.type = "End"
    /\ parser.currentToken.range.end.index > 0
    /\ calls >= Len(getTokens(source, StartPosition).tokens) + 3

-----------------------------------------------------------------------------
(* Claims about validate().                                                 *)

\* What validate(files) appends to a document without diagnostics.
SemanticDiagnostics(doc, files) ==
    validate([doc EXCEPT !.messages = <<>>, !.parsedMessageCount = 0], files).messages

\* C7: after parse() has returned, whatever validate() calls follow,
\* parsedMessageCount stays the number of parse-time diagnostics, these stay
\* the first messages in their order, and after a validate() call only that
\* call's diagnostics follow them.
C7_ParsedPrefixKept ==
    phase \in {"finished", "validated"} =>
        LET doc == parser.parsedDocument
        IN  /\ doc.parsedMessageCount = Len(parsedMessages)
            /\ SubSeq(doc.messages, 1, Len(parsedMessages)) = parsedMessages
            /\ phase = "finished" => doc.messages = parsedMessages
            /\ phase = "validated" =>
                    doc.messages = parsedMessages
                        \o SemanticDiagnostics(doc, DocumentSets(doc)[validatedWith])

\* A second validate() call has run on a document that has parse-time
\* diagnostics and gets semantic ones.
C7_Witness ==
    /\ phase = "validated"
    /\ repeats = MaxRepeats
    /\ parsedMessages # <<>>
    /\ Len(parser.parsedDocument.messages) > Len(parsedMessages) + 1

\* The set of a document's references.
ReferenceSet(doc) == {doc.references[i] : i \in 1..Len(doc.references)}

\* C8: a validate() call that follows a validate() call with the same
\* document set leaves messages, shapes, relativeShapes, namespace and the
\* references as the first call left them.
C8_ValidateIdempotent ==
    [][phase = "validated" /\ phase' = "validated" /\ validatedWith' = validatedWith
        => /\ parser'.parsedDocument.messages = parser.parsedDocument.messages
           /\ parser'.parsedDocument.shapes = parser.parsedDocument.shapes
           /\ parser'.parsedDocument.relativeShapes = parser.parsedDocument.relativeShapes
           /\ parser'.parsedDocument.namespace = parser.parsedDocument.namespace
           /\ ReferenceSet(parser'.parsedDocument) = ReferenceSet(parser.parsedDocument)]_vars

\* validate() has run twice in a row with all three documents, on a
\* document with references and semantic diagnostics.
C8_Witness ==
    /\ phase = "validated"
    /\ repeats = MaxRepeats
    /\ validatedWith = Len(DocumentSets(parser.parsedDocument))
    /\ Len(parser.parsedDocument.references) >= 2
    /\ \E i \in 1..Len(parser.parsedDocument.messages) :
            parser.parsedDocument.messages[i].text = "Unknown shape."

-----------------------------------------------------------------------------
(* Claims about references and shape definitions.                           *)

\* The canonical id a reference resolves to: its own namespace when it has
\* one, else the first id registered for its relative id, else the
\* document's namespace (the prelude's when there is none).
ResolvedCanonicalId(doc, identifier) ==
    IF identifier.namespace # undefined THEN CanonicalId(identifier.namespace, identifier)
    ELSE IF toRelative(identifier) \in DOMAIN doc.relativeShapes
    THEN doc.relativeShapes[toRelative(identifier)][1]
    ELSE CanonicalId(IF ~Falsy(doc.namespace) THEN doc.namespace ELSE PreludeNamespace,
                     identifier)

\* The identifier is an unqualified prelude, simple-shape or trait name.
UnqualifiedKnownName(identifier) ==
    /\ Falsy(identifier.namespace)
    /\ Falsy(identifier.member)
    /\ identifier.name \in simpleShapeNames \cup PreludeShapes \cup Traits

\* file shares the namespace that matters for the identifier: the
\* identifier's own, or the referring document's when it has none.
SharesNamespace(doc, identifier, file) ==
    IF ~Falsy(identifier.namespace) THEN file.namespace = identifier.namespace
    ELSE file.namespace = doc.namespace

\* The relative id of the identifier is registered in a document of files
\* that shares the namespace.
RegisteredIn(doc, identifier, files) ==
    \E i \in 1..Len(files) :
        /\ SharesNamespace(doc, identifier, files[i])
        /\ toRelative(identifier) \in DOMAIN files[i].relativeShapes

UnknownReference(doc, reference, files) ==
    /\ ResolvedCanonicalId(doc, reference.identifier) \notin DOMAIN doc.shapes
    /\ ~UnqualifiedKnownName(reference.identifier)
    /\ ~RegisteredIn(doc, reference.identifier, files)

\* Where a diagnostic on a token lies.
Span(token) == <<token.range.start.index, token.range.end.index>>

\* The spans of the "Unknown shape." diagnostics validate(files) appends.
UnknownShapeSpans(doc, files) ==
    LET semantic == SemanticDiagnostics(doc, files)
        unknown == SelectSeq(semantic, LAMBDA m : m.text = "Unknown shape." /\ m.type = "Error")
    IN  [i \in 1..Len(unknown) |-> <<unknown[i].startIndex, unknown[i].endIndex>>]

\* C9: validate(allDocuments) appends one "Unknown shape." Error for each
\* reference that resolves to no shape of the document, is no unqualified
\* prelude, simple-shape or trait name and has its relative id registered in
\* no document of allDocuments sharing the namespace, and none for any other
\* reference; with a document of that namespace that defines the shape
\* added to allDocuments, validate() leaves none for the reference.
C9_UnknownShapeExactly ==
    phase = "validated" =>
        LET doc == parser.parsedDocument
            files == DocumentSets(doc)[validatedWith]
            unknown == SelectSeq(doc.references, LAMBDA r : UnknownReference(doc, r, files))
            semantic == SubSeq(doc.messages, doc.parsedMessageCount + 1, Len(doc.messages))
            reported == SelectSeq(semantic, LAMBDA m : m.text = "Unknown shape.")
        IN  /\ [i \in 1..Len(reported) |-> <<reported[i].startIndex, reported[i].endIndex>>]
                = [i \in 1..Len(unknown) |-> Span(unknown[i].token)]
            /\ \A i \in 1..Len(reported) : reported[i].type = "Error"
            /\ \A i \in 1..Len(unknown) :
                \A definer \in {InNamespaceA, WithoutNamespace} :
                    /\ SharesNamespace(doc, unknown[i].identifier, definer)
                    /\ toRelative(unknown[i].identifier) \in DOMAIN definer.relativeShapes
                    => \A j \in 1..Len(UnknownShapeSpans(doc, Append(files, definer))) :
                            UnknownShapeSpans(doc, Append(files, definer))[j]
                                # Span(unknown[i].token)

\* The addShape calls a document has seen, in call order: each is followed
\* by the addReference of a Shape or Use reference on the same token.
DefinitionCalls(doc) ==
    SelectSeq(doc.references, LAMBDA r : r.type \in {"Shape", "Use"})

\* The diagnostics of parse().
ParseDiagnostics ==
    IF phase \in {"finished", "validated"} THEN parsedMessages
    ELSE parser.parsedDocument.messages

AlreadyDefinedAt(token) ==
    Len(SelectSeq(ParseDiagnostics,
                  LAMBDA m : /\ m.text = "Shape is already defined."
                             /\ <<m.startIndex, m.endIndex>> = Span(token)))

\* C10: for the k addShape calls with one relative identifier, the first
\* adds no diagnostic, each later one adds exactly one "Shape is already
\* defined." diagnostic (and there are no such diagnostics but these), and
\* shapes[canonical id] holds the k definition tokens in call order.
C10_DuplicatesKept ==
    phase \in {"parse", "thrown", "finished", "validated"} =>
        LET doc == parser.parsedDocument
            calls_ == DefinitionCalls(doc)
            Of(relative) == SelectSeq(calls_, LAMBDA r : toRelative(r.identifier) = relative)
            relatives == {toRelative(calls_[i].identifier) : i \in 1..Len(calls_)}
        IN  /\ \A relative \in relatives :
                /\ \A j \in 1..Len(Of(relative)) :
                      AlreadyDefinedAt(Of(relative)[j].token) = IF j = 1 THEN 0 ELSE 1
                /\ \E id \in DOMAIN doc.shapes :
                      doc.shapes[id] = [j \in 1..Len(Of(relative)) |-> Of(relative)[j].token]
            /\ Len(SelectSeq(ParseDiagnostics, LAMBDA m : m.text = "Shape is already defined."))
                = Len(calls_) - Cardinality(relatives)

-----------------------------------------------------------------------------
(* ParsedDocument.findSymbol                                                *)

\* Most lines after the first, and the last column, of the positions the
\* reference lists of SpecSymbols are laid out on.
MaxLine == 1
MaxColumn == 3
\* Most references in a list of SpecSymbols.
MaxReferences == 3

\* The compareFunction findSymbol hands to binarySearch.
symbolCompare(element, reference) ==
    LET from == reference.token.range.start
        to == reference.token.range.end
    IN  IF to.line < element.line THEN 1
        ELSE IF from.line > element.line THEN -1
        ELSE IF to.line = element.line /\ to.column < element.column THEN 1
        ELSE IF from.line = element.line /\ from.column > element.column THEN -1
        ELSE 0

\* (rightIndex - leftIndex) >> 1, where the difference is not negative.
ShiftRightOne(n) == n \div 2

\* The loop of binarySearch with `rightIndex = middleIndex - 2` for
\* `rightIndex = middleIndex - 1`.
RECURSIVE binarySearchLoopSkipping(_, _, _, _)
binarySearchLoopSkipping(array, element, leftIndex, rightIndex) ==
    IF leftIndex > rightIndex THEN -leftIndex - 1
    ELSE LET middleIndex == leftIndex + ShiftRightOne(rightIndex - leftIndex)
             cmp == symbolCompare(element, array[middleIndex + 1])
         IN  IF cmp > 0
             THEN binarySearchLoopSkipping(array, element, middleIndex + 1, rightIndex)
             ELSE IF cmp < 0
             THEN binarySearchLoopSkipping(array, element, leftIndex, middleIndex - 2)
             ELSE middleIndex

\* The loop of binarySearch from the given leftIndex and rightIndex; indices
\* count from 0 as in the code.
RECURSIVE binarySearchLoop(_, _, _, _)
binarySearchLoop(array, element, leftIndex, rightIndex) ==
    IF leftIndex > rightIndex THEN -leftIndex - 1
    ELSE LET middleIndex == leftIndex + ShiftRightOne(rightIndex - leftIndex)
             cmp == symbolCompare(element, array[middleIndex + 1])
         IN  IF cmp > 0
             THEN binarySearchLoop(array, element, middleIndex + 1, rightIndex)
             ELSE IF cmp < 0
             THEN binarySearchLoop(array, element, leftIndex, middleIndex - 1)
             ELSE middleIndex

binarySearch(array, element) == binarySearchLoop(array, element, 0, Len(array) - 1)

\* What findSymbol returns when no reference is found.
NoReference == [found |-> FALSE]

findSymbol(doc, line, column) ==
    LET index == binarySearch(doc.references, [line |-> line, column |-> column])
    IN  IF index >= 0 THEN doc.references[index + 1] ELSE NoReference

-----------------------------------------------------------------------------
(* SpecSymbols: findSymbol asked, position after position, about a document *)
(* whose references lie one after another on a small grid of positions.     *)

SymbolPositions == {[line |-> l, column |-> c] : l \in 0..MaxLine, c \in 0..MaxColumn}

\* a comes before b in the text.
Before(a, b) == a.line < b.line \/ (a.line = b.line /\ a.column < b.column)

\* A reference whose token begins at start and ends at end.
ReferenceAt(range) ==
    [token      |-> [type |-> "Identifier", range |-> range],
     identifier |-> Identifier("Foo"),
     type       |-> "Shape"]

TokenRanges ==
    {[start |-> a, end |-> b] : <<a, b>> \in {q \in SymbolPositions \X SymbolPositions :
                                                Before(q[1], q[2])}}

\* The lists of at most n references as the lexer's tokens lie: in the
\* order of the text, none beginning before the one before it has ended.
RECURSIVE ReferenceLists(_)
ReferenceLists(n) ==
    IF n = 0 THEN {<<>>}
    ELSE LET shorter == ReferenceLists(n - 1)
         IN  shorter \cup
             {Append(q[1], ReferenceAt(q[2])) :
                q \in {q \in shorter \X TokenRanges :
                         \/ q[1] = <<>>
                         \/ ~Before(q[2].start, q[1][Len(q[1])].token.range.end)}}

SymbolUri == "file:///a.smithy"

\* The one document of SpecSymbols.
SymbolDocument == model.parsedFiles[1][2]

SymbolsInit ==
    /\ source = ""
    /\ position = StartPosition
    /\ lexpc = "done"
    /\ yielded = <<>>
    /\ parser = <<>>
    /\ phase = "symbols"
    /\ parsedMessages = <<>>
    /\ validatedWith = 0
    /\ repeats = 0
    /\ calls = 0
    /\ \E references \in ReferenceLists(MaxReferences) :
            model = [parsedFiles |->
                        << <<SymbolUri,
                             [ParsedDocument(SymbolUri) EXCEPT !.references = references]>> >>]
    /\ documents = <<>>
    /\ published = <<>>
    /\ request = NoRequest

\* parsedDocument.findSymbol(line, column)
FindSymbol ==
    /\ phase = "symbols"
    /\ \E at \in SymbolPositions :
            request' = [name   |-> "findSymbol",
                        line   |-> at.line,
                        column |-> at.column,
                        result |-> findSymbol(SymbolDocument, at.line, at.column)]
    /\ UNCHANGED <<lexVars, parserVars, model, documents, published>>

SymbolsNext == FindSymbol

SpecSymbols == SymbolsInit /\ [][SymbolsNext]_vars

-----------------------------------------------------------------------------
(* Claims about findSymbol.                                                 *)

\* The token range of the reference holds the position, its first and its
\* last position included.
Contains(reference, at) ==
    /\ ~Before(at, reference.token.range.start)
    /\ ~Before(reference.token.range.end, at)

SortedByStart(references) ==
    \A i \in 1..Len(references) - 1 : compareReferences(references[i], references[i + 1]) <= 0

PairwiseDisjoint(references) ==
    \A i, j \in 1..Len(references) :
        i # j => \A at \in SymbolPositions :
                    ~(Contains(references[i], at) /\ Contains(references[j], at))

\* The linear scan: the references that hold the position.
LinearScan(references, at) ==
    LET holding == {i \in 1..Len(references) : Contains(references[i], at)}
    IN  IF holding = {} THEN NoReference
        ELSE references[CHOOSE i \in holding : \A j \in holding : i <= j]

\* C11: on a reference list sorted by start position whose token ranges are
\* pairwise disjoint, findSymbol(line, column) returns what a linear scan
\* returns: the one reference whose token range holds the position, or
\* nothing when no reference holds it.
C11_FindSymbolIsLinearScan ==
    request.name = "findSymbol" =>
        LET references == SymbolDocument.references
            at == [line |-> request.line, column |-> request.column]
        IN  SortedByStart(references) /\ PairwiseDisjoint(references) =>
                /\ request.result = LinearScan(references, at)
                /\ Cardinality({i \in 1..Len(references) : Contains(references[i], at)}) <= 1

\* A list of three disjoint references, and a position in the first one.
C11_Witness ==
    /\ request.name = "findSymbol"
    /\ Len(SymbolDocument.references) = MaxReferences
    /\ PairwiseDisjoint(SymbolDocument.references)
    /\ request.result = SymbolDocument.references[1]

-----------------------------------------------------------------------------
(* SpecIdentifier: new Identifier(value) and resolveId over every short     *)
(* shape-id string and a handful of parsed documents.                       *)

\* Longest shape-id string of SpecIdentifier.
MaxIdLen == 5

\* The characters of the shape-id strings: a letter and the two separators.
IdChars == {"a", "#", "$"}

ShapeIds == Texts(IdChars, MaxIdLen) \cup {"com.example#Widget$field", "Widget", "toString"}

\* The documents resolveId is asked in: without and with a namespace,
\* without and with shapes, members and imports named like the identifiers.
IdDocuments ==
    << parseDocument("file:///a.smithy", ""),
       parseDocument("file:///a.smithy", "namespace a"),
       parseDocument("file:///a.smithy", "string a"),
       parseDocument("file:///a.smithy", "namespace a\nstructure a { a: a }"),
       parseDocument("file:///a.smithy", "namespace b\nuse a#a\nstring Widget") >>

IdentifierInit ==
    /\ source = ""
    /\ position = StartPosition
    /\ lexpc = "done"
    /\ yielded = <<>>
    /\ parser = <<>>
    /\ phase = "identifier"
    /\ parsedMessages = <<>>
    /\ validatedWith = 0
    /\ repeats = 0
    /\ calls = 0
    /\ model = [parsedFiles |-> <<>>]
    /\ documents = <<>>
    /\ published = <<>>
    /\ \E value \in ShapeIds : request = [name |-> "none", value |-> value]

\* new Identifier(value)
NewIdentifier ==
    /\ phase = "identifier"
    /\ request.name = "none"
    /\ request' = [name   |-> "Identifier",
                   value  |-> request.value,
                   result |-> Identifier(request.value)]
    /\ UNCHANGED <<lexVars, parserVars, model, documents, published>>

\* parsedDocument.resolveId(identifier) in one of the documents
ResolveId ==
    /\ phase = "identifier"
    /\ request.name = "Identifier"
    /\ \E i \in 1..Len(IdDocuments) :
            request' = [name       |-> "resolveId",
                        value      |-> request.value,
                        identifier |-> request.result,
                        document   |-> i,
                        result     |-> resolveId(IdDocuments[i], request.result)]
    /\ UNCHANGED <<lexVars, parserVars, model, documents, published>>

IdentifierNext ==
    \/ NewIdentifier
    \/ ResolveId

SpecIdentifier == IdentifierInit /\ [][IdentifierNext]_vars

-----------------------------------------------------------------------------
(* Claims about Identifier and resolveId.                                   *)

\* c does not occur in s.
Without(s, c) == \A i \in 1..Len(s) : SubSeq(s, i, i) # c

\* whole is left, then the character c, then right, and c is not in left.
SplitAtFirst(whole, left, c, right) == whole = left \o c \o right /\ Without(left, c)

Prefixes(s) == {SubSeq(s, 1, n) : n \in 0..Len(s)}
Suffixes(s) == {SubSeq(s, n + 1, Len(s)) : n \in 0..Len(s)}

\* C12: new Identifier(s) has namespace = the text before the first `#`
\* (undefined when s has no `#`, empty when s starts with `#`), member = the
\* text after the first `$` after the namespace separator (undefined when
\* there is none), and name = the text between them.
C12_IdentifierParts ==
    request.name = "Identifier" =>
        LET s == request.value
            id == request.result
            rest == IF Without(s, "#") THEN s
                    ELSE CHOOSE r \in Suffixes(s) :
                            \E n \in Prefixes(s) : SplitAtFirst(s, n, "#", r)
        IN  /\ IF Without(s, "#") THEN id.namespace = undefined
               ELSE SplitAtFirst(s, id.namespace, "#", rest)
            /\ IF Without(rest, "$") THEN id.name = rest /\ id.member = undefined
               ELSE SplitAtFirst(rest, id.name, "$", id.member)
            /\ (s # "" /\ Head(s) = "#") => id.namespace = ""
            /\ s = "com.example#Widget$field" =>
                    id = [namespace |-> "com.example", name |-> "Widget", member |-> "field"]
            /\ s = "Widget" => id.namespace = undefined

\* A `$` before the `#` belongs to the namespace, the first one after it
\* starts the member.
C12_Witness ==
    /\ request.name = "Identifier"
    /\ request.value = "$#a$a"
    /\ request.result = [namespace |-> "$", name |-> "a", member |-> "a"]

\* C13: resolveId of an identifier that has a namespace returns
\* `namespace#name[$member]` in every document, whatever the document's
\* namespace, shapes and relativeShapes.
C13_ResolveIdIgnoresDocument ==
    request.name = "resolveId" /\ request.identifier.namespace # undefined =>
        /\ \A j \in 1..Len(IdDocuments) :
                resolveId(IdDocuments[j], request.identifier) = request.result
        /\ request.result =
                request.identifier.namespace \o "#" \o request.identifier.name
                \o (IF request.identifier.member # undefined
                    THEN "$" \o request.identifier.member ELSE "")

\* A namespaced identifier resolved in a document that has its relative
\* name registered under another canonical id.
C13_Witness ==
    /\ request.name = "resolveId"
    /\ request.identifier.namespace = ""
    /\ Has(IdDocuments[request.document].relativeShapes, toRelative(request.identifier))
    /\ IdDocuments[request.document].relativeShapes[toRelative(request.identifier)][1]
            # request.result

-----------------------------------------------------------------------------
(* SpecModel: the language server, its registry Model.parsedFiles and its   *)
(* open documents, under content changes of open documents, watched-file    *)
(* changes and deletions, and definition requests.                          *)

Uris == {"file:///a.smithy", "file:///b.smithy"}

\* The texts documents and files have in SpecModel.
ModelTexts ==
    {"namespace com.example\nstructure Foo { bar: String }",
     "namespace com.example\nstructure Q { f: Foo }",
     "string toString"}

\* Map: the entries <<key, value>> in the order of insertion.
mapHas(map, key) == \E i \in 1..Len(map) : map[i][1] = key

mapGet(map, key) == map[CHOOSE i \in 1..Len(map) : map[i][1] = key][2]

mapSet(map, key, value) ==
    IF mapHas(map, key)
    THEN [i \in 1..Len(map) |-> IF map[i][1] = key THEN <<key, value>> ELSE map[i]]
    ELSE Append(map, <<key, value>>)

\* Map.delete that leaves the entry where it is.
mapDeleteNothing(map, key) == map

mapDelete(map, key) == SelectSeq(map, LAMBDA entry : entry[1] # key)

\* The values of the map but for the one inserted first.
mapValuesButFirst(map) == [i \in 1..(Len(map) - 1) |-> map[i + 1][2]]

\* Array.from(map.values())
mapValues(map) == [i \in 1..Len(map) |-> map[i][2]]

\* The Parser of each text after parse(), or as the throw of parse() left it.
ParsedTexts ==
    [text \in ModelTexts |-> call("parse", <<Parser(text, ParsedDocument(""))>>)]

\* model.parseDocument(document) throws.
parseDocumentThrows(text) == ParsedTexts[text].thrown

\* model.parseDocument(document), where it returns.
modelParseDocument(uri, text) == [ParsedTexts[text].parsedDocument EXCEPT !.uri = uri]

\* What a document of `documents` holds before parseDocument has set its
\* parsedDocument property.
NoParsedDocument == [parsed |-> FALSE]

Previous(uri) ==
    IF mapHas(documents, uri) THEN mapGet(documents, uri).parsedDocument
    ELSE NoParsedDocument

ModelInit ==
    /\ source = ""
    /\ position = StartPosition
    /\ lexpc = "done"
    /\ yielded = <<>>
    /\ parser = <<>>
    /\ phase = "server"
    /\ parsedMessages = <<>>
    /\ validatedWith = 0
    /\ repeats = 0
    /\ calls = 0
    /\ ModelIdle

\* documents.onDidChangeContent, for a document opened or changed to text:
\* parseDocument(event.document), then validateDocument.  When parse()
\* throws, the handler ends there.
DidChangeContent ==
    /\ phase = "server"
    /\ \E uri \in Uris, text \in ModelTexts :
        IF parseDocumentThrows(text)
        THEN /\ documents' = mapSet(documents, uri,
                                    [text |-> text, parsedDocument |-> Previous(uri)])
             /\ request' = [name |-> "didChangeContent", uri |-> uri, text |-> text,
                            thrown |-> TRUE]
             /\ UNCHANGED <<model, published>>
        ELSE LET parsedDocument == modelParseDocument(uri, text)
                 parsedFiles == mapSet(model.parsedFiles, uri, parsedDocument)
                 validated == validate(parsedDocument, mapValues(parsedFiles))
             IN  /\ model' = [model EXCEPT !.parsedFiles = mapSet(@, uri, validated)]
                 /\ documents' = mapSet(documents, uri,
                                        [text |-> text, parsedDocument |-> validated])
                 /\ published' = mapSet(published, uri, validated.messages)
                 /\ request' = [name |-> "didChangeContent", uri |-> uri, text |-> text,
                                thrown |-> FALSE]
    /\ UNCHANGED <<lexVars, parserVars>>

\* connection.onDidChangeWatchedFiles with one change of type Created or
\* Changed: parseDocument(createDocument(uri, path)) of the file's text.
WatchedFileChanged ==
    /\ phase = "server"
    /\ \E uri \in Uris, text \in ModelTexts :
        /\ model' = IF parseDocumentThrows(text) THEN model
                    ELSE [model EXCEPT !.parsedFiles =
                            mapSet(@, uri, modelParseDocument(uri, text))]
        /\ request' = [name |-> "watchedFileChanged", uri |-> uri, text |-> text,
                       thrown |-> parseDocumentThrows(text)]
    /\ UNCHANGED <<lexVars, parserVars, documents, published>>

\* connection.onDidChangeWatchedFiles with one change of type Deleted
WatchedFileDeleted ==
    /\ phase = "server"
    /\ \E uri \in Uris :
        /\ model' = [model EXCEPT !.parsedFiles = mapDelete(@, uri)]
        /\ request' = [name |-> "watchedFileDeleted", uri |-> uri]
    /\ UNCHANGED <<lexVars, parserVars, documents, published>>

\* What onDefinition returns when it returns undefined.
NoLocation == [found |-> FALSE]

findShape(parsedFiles, resolvedId) ==
    LET having == {i \in 1..Len(parsedFiles) :
                      Has(parsedFiles[i][2].shapes, PropertyKey(resolvedId))}
    IN  IF having = {} THEN NoLocation
        ELSE LET first == CHOOSE i \in having : \A j \in having : i <= j
             IN  [found          |-> TRUE,
                  parsedDocument |-> parsedFiles[first][2],
                  shape          |-> parsedFiles[first][2].shapes[PropertyKey(resolvedId)][1]]

\* The range onDefinition returns for a definition token.
LocationRange(range) ==
    [start |-> [line |-> range.start.line, character |-> Max(0, range.start.column - 1)],
     end   |-> [line |-> range.end.line, character |-> Max(0, range.end.column - 1)]]

onDefinition(parsedFiles, parsedDocument, line, character) ==
    LET reference == findSymbol(parsedDocument, line, character)
    IN  IF reference = NoReference THEN NoLocation
        ELSE LET symbol == findShape(parsedFiles, resolveId(parsedDocument, reference.identifier))
             IN  IF ~symbol.found THEN NoLocation
                 ELSE [found |-> TRUE,
                       uri   |-> symbol.parsedDocument.uri,
                       range |-> LocationRange(symbol.shape.range)]

\* The positions definition requests are made at: where the tokens of the
\* document's references begin, and the start of the text.
DefinitionPositions(parsedDocument) ==
    {[line |-> 0, character |-> 0]}
    \cup {[line      |-> parsedDocument.references[i].token.range.start.line,
           character |-> parsedDocument.references[i].token.range.start.column] :
            i \in 1..Len(parsedDocument.references)}

\* connection.onDefinition for an open document that has been parsed.
Definition ==
    /\ phase = "server"
    /\ \E uri \in Uris :
        /\ mapHas(documents, uri)
        /\ mapGet(documents, uri).parsedDocument # NoParsedDocument
        /\ \E at \in DefinitionPositions(mapGet(documents, uri).parsedDocument) :
            request' = [name      |-> "definition",
                        uri       |-> uri,
                        line      |-> at.line,
                        character |-> at.character,
                        result    |-> onDefinition(model.parsedFiles,
                                                   mapGet(documents, uri).parsedDocument,
                                                   at.line, at.character)]
    /\ UNCHANGED <<lexVars, parserVars, model, documents, published>>

ModelNext ==
    \/ DidChangeContent
    \/ WatchedFileChanged
    \/ WatchedFileDeleted
    \/ Definition

SpecModel == ModelInit /\ [][ModelNext]_vars

-----------------------------------------------------------------------------
(* Claims about the registry and definition requests.                       *)

Tracked(uri) == mapHas(model.parsedFiles, uri)

\* An identifier that names a prelude shape without a namespace.
UnqualifiedPreludeName(identifier) ==
    /\ identifier.namespace = undefined
    /\ identifier.member = undefined
    /\ identifier.name \in PreludeShapes

\* C14: after parsing `namespace com.example`, `structure Foo { bar: String }`
\* the document holds a Member reference for String, and every unqualified
\* reference to a prelude shape name the file does not define resolves to
\* that name in the prelude namespace, whatever namespace the file declares.
C14_PreludeReferenceResolvesToPrelude ==
    \A i \in 1..Len(model.parsedFiles) :
        LET doc == model.parsedFiles[i][2]
        IN  /\ \A k \in 1..Len(doc.references) :
                  LET identifier == doc.references[k].identifier
                  IN  (UnqualifiedPreludeName(identifier)
                       /\ ~Has(doc.relativeShapes, identifier.name))
                      => resolveId(doc, identifier) = PreludeNamespace \o "#" \o identifier.name
            /\ (doc.namespace = "com.example" /\ Has(doc.shapes, "com.example#Foo$bar"))
                  => \E k \in 1..Len(doc.references) :
                        /\ doc.references[k].type = "Member"
                        /\ doc.references[k].identifier = Identifier("String")

\* The step handles a content change of request'.uri to request'.text.
ChangeStep == request'.name = "didChangeContent"

\* After the step the registry holds, for the changed uri, the document
\* parsed from the new text alone and validated against all documents of
\* the registry, the diagnostics published for the uri are that document's,
\* and the entries and published diagnostics of the other uris are as before.
ChangeReplacesEntry ==
    LET uri == request'.uri
        fresh == modelParseDocument(uri, request'.text)
        validated == validate(fresh, mapValues(model'.parsedFiles))
    IN  /\ mapHas(model'.parsedFiles, uri)
        /\ mapGet(model'.parsedFiles, uri) = validated
        /\ mapHas(published', uri)
        /\ mapGet(published', uri) = validated.messages
        /\ \A other \in Uris \ {uri} :
              /\ mapHas(model'.parsedFiles, other) = mapHas(model.parsedFiles, other)
              /\ mapHas(model.parsedFiles, other) =>
                    mapGet(model'.parsedFiles, other) = mapGet(model.parsedFiles, other)
              /\ mapHas(published', other) = mapHas(published, other)
              /\ mapHas(published, other) =>
                    mapGet(published', other) = mapGet(published, other)

\* C15: an open/change notification for a uri replaces the registry entry
\* of the uri with a freshly created ParsedDocument, validated against the
\* full current document set, publishes only that uri's diagnostics, and
\* leaves the entries of all other uris as they were.
C15_ChangeReplacesEntry == [][ChangeStep => ChangeReplacesEntry]_vars

\* The same, for the notifications whose parse() returns.
ChangeReplacesEntryWhenParsed == [][ChangeStep /\ ~request'.thrown => ChangeReplacesEntry]_vars

\* The reference a definition request finds under its position.
RequestedReference ==
    findSymbol(mapGet(documents, request.uri).parsedDocument, request.line, request.character)

\* The canonical id the requesting document resolves that reference to.
RequestedId ==
    PropertyKey(resolveId(mapGet(documents, request.uri).parsedDocument,
                          RequestedReference.identifier))

\* The definition request returned what the claim says: the location of the
\* first token under the resolved id in the first tracked document that has
\* the id in its shapes, nothing when no tracked document has it.
DefinitionAnswered ==
    request.name = "definition" =>
        IF RequestedReference = NoReference THEN request.result = NoLocation
        ELSE LET holders == {i \in 1..Len(model.parsedFiles) :
                                Has(model.parsedFiles[i][2].shapes, RequestedId)}
             IN  IF holders = {} THEN request.result = NoLocation
                 ELSE /\ request.result.found
                      /\ Tracked(request.result.uri)
                      /\ \E i \in holders :
                            /\ \A j \in holders : i <= j
                            /\ request.result.uri = model.parsedFiles[i][1]
                            /\ request.result.range =
                                 LocationRange(model.parsedFiles[i][2].shapes[RequestedId][1].range)

\* A delete notification for a uri leaves the uri untracked, and a uri
\* becomes tracked only by a change or create notification for it.
DeleteUntracks ==
    /\ request'.name = "watchedFileDeleted" => ~mapHas(model'.parsedFiles, request'.uri)
    /\ \A uri \in Uris :
          (~mapHas(model.parsedFiles, uri) /\ mapHas(model'.parsedFiles, uri)) =>
              /\ request'.name \in {"didChangeContent", "watchedFileChanged"}
              /\ request'.uri = uri

\* C16: after any sequence of open/change/delete notifications a definition
\* request returns the location of the first definition token recorded under
\* the resolved canonical id in a currently tracked document, and nothing
\* when no tracked document's shapes table has the id; after a delete
\* notification for a uri, until the uri is opened again, no result points
\* into it.
C16_DefinitionFollowsRegistry == [](DefinitionAnswered) /\ [][DeleteUntracks]_vars

\* A request from a document that is open but no longer tracked, answered
\* with a location in the other document.
C16_Witness ==
    /\ request.name = "definition"
    /\ ~Tracked(request.uri)
    /\ request.result.found
    /\ request.result.uri # request.uri

-----------------------------------------------------------------------------
(* Claims about the sections of a document.                                 *)

\* The section the round of parse() that starts at the token enters, "none"
\* when it enters no section.
SectionEntered(statementToken) ==
    LET name == statementBranch(statementToken)
    IN  IF name = "metadata" THEN "Metadata"
        ELSE IF name \in {"namespace", "use", "apply", "aggregate", "simple"} THEN "Shape"
        ELSE IF name = "control" THEN "Control"
        ELSE "none"

\* How many of the messages have the text.
CountText(messages, text) == Len(SelectSeq(messages, LAMBDA m : m.text = text))

\* How many messages with the text the step adds.
Added(text) ==
    CountText(parser'.parsedDocument.messages, text)
    - CountText(parser.parsedDocument.messages, text)

\* The step is a round of the loop of parse().
RoundStep == phase = "parse" /\ parser.currentToken.type # "End"

SectionOrdering ==
    LET section == SectionEntered(parser.currentToken)
        before == parser.parsedDocument.sections
        after == parser'.parsedDocument.sections
    IN  /\ \A s \in {"Control", "Metadata", "Shape"} :
              /\ Has(after, s) <=> (Has(before, s) \/ s = section)
              /\ Has(before, s) => after[s] = before[s]
              /\ (~Has(before, s) /\ s = section) => after[s] = parser.currentToken
        /\ Added("Control section has to be defined first.") =
              IF section = "Control" /\ (Has(before, "Metadata") \/ Has(before, "Shape"))
              THEN 1 ELSE 0
        /\ Added("Metadata must be defined before shapes.") =
              IF section = "Metadata" /\ Has(before, "Shape") THEN 1 ELSE 0
        /\ ~parser'.thrown =>
              /\ phase' = "parse"
              /\ LookAhead(parser') > LookAhead(parser)

\* C17: sections[s] is set at the first entry of section s and never
\* overwritten; "Control section has to be defined first." is added exactly
\* when Control is entered after Metadata or Shape, "Metadata must be
\* defined before shapes." exactly when Metadata is entered after Shape, no
\* other entry adds an ordering diagnostic, and parsing goes on in every
\* case.
C17_SectionOrdering == [][RoundStep => SectionOrdering]_vars

\* Shape, then Metadata, then Control: both ordering diagnostics, and the
\* parse has come to its end.
C17_Witness ==
    /\ phase = "finished"
    /\ CountText(parser.parsedDocument.messages, "Control section has to be defined first.") = 1
    /\ CountText(parser.parsedDocument.messages, "Metadata must be defined before shapes.") = 1
    /\ Has(parser.parsedDocument.sections, "Shape")

-----------------------------------------------------------------------------
(* SpecMessages: addMessage called with the Parser's current token, with    *)
(* and without `after`, at every token of every short text.                 *)

\* Longest source text of SpecMessages.
MaxMessageLen == 3
\* Most messages added to the document in SpecMessages.
MaxMessages == 1

MessagesInit ==
    /\ source \in Texts(LexChars, MaxMessageLen)
    /\ ~getTokens(source, StartPosition).hangs
    /\ position = StartPosition
    /\ lexpc = "loop"
    /\ yielded = <<>>
    /\ parser = NewParser(source)
    /\ phase = "messages"
    /\ parsedMessages = <<>>
    /\ validatedWith = 0
    /\ repeats = 0
    /\ calls = 0
    /\ ModelIdle

\* this.advanceToken(), until the End token is the current one
NextToken ==
    /\ phase = "messages"
    /\ parser.currentToken.type # "End"
    /\ parser' = advanceToken(parser)
    /\ UNCHANGED <<lexVars, phase, parsedMessages, validatedWith, repeats, calls, modelVars>>

\* this.parsedDocument.addMessage(text, { token: this.currentToken, after })
AddMessage ==
    /\ phase = "messages"
    /\ Len(parser.parsedDocument.messages) < MaxMessages
    /\ \E after \in BOOLEAN :
        /\ parser' = [parser EXCEPT !.parsedDocument =
                        addMessage(@, "Expected name.", parser.currentToken, "Error", after)]
        /\ request' = [name  |-> "addMessage",
                       token |-> parser.currentToken,
                       after |-> after]
    /\ UNCHANGED <<lexVars, phase, parsedMessages, validatedWith, repeats, calls, model,
                   documents, published>>

MessagesNext ==
    \/ NextToken
    \/ AddMessage

SpecMessages == MessagesInit /\ [][MessagesNext]_vars

-----------------------------------------------------------------------------
(* Claims about the range of a diagnostic.                                  *)

\* The message the last addMessage call added.
LastMessage == parser.parsedDocument.messages[Len(parser.parsedDocument.messages)]

\* The last addMessage call was made without `after` on a token other than
\* End, and its message covers exactly the token.
OnTokenCoversToken ==
    (request.name = "addMessage" /\ ~request.after /\ request.token.type # "End") =>
        /\ LastMessage.startIndex = request.token.range.start.index
        /\ LastMessage.endIndex = request.token.range.end.index

\* C18, as claimed: a diagnostic added with `after: true` covers a single
\* point just past the token, startIndex and endIndex both being the token's
\* range.end.index; one added without it on a non-End token covers exactly
\* the token.
C18_AfterIsPoint ==
    /\ (request.name = "addMessage" /\ request.after) =>
            /\ LastMessage.startIndex = request.token.range.end.index
            /\ LastMessage.endIndex = request.token.range.end.index
    /\ OnTokenCoversToken

\* C18: a diagnostic added with `after: true`, or added on the End token,
\* covers the one character before the token's end: startIndex is
\* range.end.index - 1 and endIndex is range.end.index; one added without
\* `after` on a non-End token covers exactly the token.
C18_AfterCoversLastCharacter ==
    /\ (request.name = "addMessage" /\ (request.after \/ request.token.type = "End")) =>
            /\ LastMessage.startIndex = request.token.range.end.index - 1
            /\ LastMessage.endIndex = request.token.range.end.index
    /\ OnTokenCoversToken

\* `after: true` on a token of several characters that is not the first of
\* the text.
C18_Witness ==
    /\ request.name = "addMessage"
    /\ request.after
    /\ request.token.type = "Identifier"
    /\ request.token.range.start.index > 0
    /\ request.token.range.end.index - request.token.range.start.index > 1
    /\ LastMessage.startIndex > request.token.range.start.index

-----------------------------------------------------------------------------
(* Claims about string literals.                                            *)

\* The indices after `from` at which the source has the character c.
Later(c, from) == {j \in from + 1 .. Len(source) - 1 : CharAt(source, j) = c}

Least(S) == CHOOSE j \in S : \A k \in S : j <= k

HasLineFeed(text) == \E i \in 1..Len(text) : SubSeq(text, i, i) = LF

\* The step yields one String token, the source from index `from` up to and
\* including index `to`.
YieldsString(from, to) ==
    /\ Len(yielded') = Len(yielded) + 1
    /\ SubSeq(yielded', 1, Len(yielded)) = yielded
    /\ yielded'[Len(yielded')].type = "String"
    /\ yielded'[Len(yielded')].range.start.index = from
    /\ yielded'[Len(yielded')].range.end.index = to + 1
    /\ yielded'[Len(yielded')].text = Substring(source, from, to + 1)

\* The step of the string branch, for a literal whose opening quote is the
\* character at start: with stopsAtLineEnd the literal is scanned up to the
\* next quote, the end of the line or the end of input, without it up to
\* the next quote or the end of input.
StringScanned(stopsAtLineEnd) ==
    LET open == start.index
        quotes == Later("\"", open)
        feeds == Later(LF, open)
        closed == /\ quotes # {}
                  /\ stopsAtLineEnd /\ feeds # {} => Least(quotes) < Least(feeds)
    IN  IF closed THEN YieldsString(open, Least(quotes))
        ELSE yielded' = yielded

-----------------------------------------------------------------------------
(* SpecStrings: the Lexer on one string literal, put together from plain    *)
(* characters, the recognised escapes and \u escapes of four hex digits.    *)

\* Most pieces (characters or escapes) between the quotes of the literal.
MaxPieces == 2

\* The hex digits the \u escapes of SpecStrings end with.
HexSample == {"0", "4", "9", "a", "f", "A", "F"}

StringPieces ==
    {"a"}
    \cup {"\\" \o c : c \in {"\\", "\"", "b", "f", "n", "r", "t"}}
    \cup {"\\u00" \o c \o d : c, d \in HexSample}

RECURSIVE StringBodies(_)
StringBodies(n) ==
    IF n = 0 THEN {""}
    ELSE LET shorter == StringBodies(n - 1)
         IN  shorter \cup {body \o piece : body \in shorter, piece \in StringPieces}

\* new Lexer(source), for a source that is one string literal
StringsInit ==
    /\ source \in {"\"" \o body \o "\"" : body \in StringBodies(MaxPieces)}
    /\ position = StartPosition
    /\ lexpc = "loop"
    /\ yielded = <<>>
    /\ parser = <<>>
    /\ phase = "lexer"
    /\ parsedMessages = <<>>
    /\ validatedWith = 0
    /\ repeats = 0
    /\ calls = 0
    /\ ModelIdle

StringsNext ==
    \/ LexString
    \/ LexExhausted

SpecStrings == StringsInit /\ [][StringsNext]_vars

-----------------------------------------------------------------------------
(* Claims about the escapes of a string literal.                            *)

\* The number a hex digit stands for.
HexDigitValue(c) ==
    CASE c = "0" -> 0 [] c = "1" -> 1 [] c = "2" -> 2 [] c = "3" -> 3 [] c = "4" -> 4
      [] c = "5" -> 5 [] c = "6" -> 6 [] c = "7" -> 7 [] c = "8" -> 8 [] c = "9" -> 9
      [] c \in {"a", "A"} -> 10 [] c \in {"b", "B"} -> 11 [] c \in {"c", "C"} -> 12
      [] c \in {"d", "D"} -> 13 [] c \in {"e", "E"} -> 14 [] c \in {"f", "F"} -> 15

\* The hexadecimal number four hex digits write.
HexNumber(digits) ==
    HexDigitValue(SubSeq(digits, 1, 1)) * 4096 + HexDigitValue(SubSeq(digits, 2, 2)) * 256
    + HexDigitValue(SubSeq(digits, 3, 3)) * 16 + HexDigitValue(SubSeq(digits, 4, 4))

\* The character a recognised escape stands for.
ControlCharacter(c) ==
    CASE c = "\\" -> "\\" [] c = "\"" -> "\"" [] c = "b" -> BS [] c = "f" -> "\f"
      [] c = "n" -> "\n" [] c = "r" -> "\r" [] c = "t" -> "\t"

\* The value of a literal with the given text between its quotes: every
\* plain character itself, every recognised escape its control character,
\* every \uXXXX the one code unit numbered XXXX.
RECURSIVE Decoded(_)
Decoded(body) ==
    IF body = "" THEN ""
    ELSE IF SubSeq(body, 1, 1) # "\\" THEN SubSeq(body, 1, 1) \o Decoded(SubSeq(body, 2, Len(body)))
    ELSE IF SubSeq(body, 2, 2) = "u"
    THEN fromCharCode(HexNumber(SubSeq(body, 3, 6))) \o Decoded(SubSeq(body, 7, Len(body)))
    ELSE ControlCharacter(SubSeq(body, 2, 2)) \o Decoded(SubSeq(body, 3, Len(body)))

\* The String token's value is what its literal stands for.
ValueDecoded(token) == token.value = Decoded(SubSeq(token.text, 2, Len(token.text) - 1))

\* C20: inside a string literal an escape \uXXXX of four hex digits (0-9,
\* a-f, A-F) contributes to the String token's value exactly one code unit,
\* the one whose number is the hexadecimal number XXXX (digit values 0 to
\* 15), and the recognised escapes \\ \" \b \f \n \r \t contribute their
\* control characters.
C20_EscapesDecoded ==
    \A k \in 1..Len(yielded) : yielded[k].type = "String" => ValueDecoded(yielded[k])


-----------------------------------------------------------------------------
(* Numerals (SpecNumbers): the lexer on texts made of the characters of a   *)
(* numeral.                                                                 *)

MaxNumeralLen == 4
NumeralChars == {"-", "+", ".", "e", "E", "1", "5"}

\* Numerals put together from their parts: sign, integer digits, fraction,
\* exponent.
NumeralParts ==
    {negative \o integer \o fraction \o exponent :
        negative \in {"", "-"},
        integer \in {"1", "15"},
        fraction \in {"", ".5", ".51"},
        exponent \in {""} \cup {marker \o sign \o digits :
                                    marker \in {"e", "E"},
                                    sign \in {"", "+", "-"},
                                    digits \in {"5", "11"}}}

NumbersInit ==
    /\ source \in Texts(NumeralChars, MaxNumeralLen) \cup NumeralParts
    /\ position = StartPosition
    /\ lexpc = "loop"
    /\ yielded = <<>>
    /\ parser = <<>>
    /\ phase = "lexer"
    /\ parsedMessages = <<>>
    /\ validatedWith = 0
    /\ repeats = 0
    /\ calls = 0
    /\ ModelIdle

NumbersNext ==
    \/ LexNumber
    \/ LexIdentifier
    \/ LexError
    \/ LexExhausted

SpecNumbers == NumbersInit /\ [][NumbersNext]_vars

\* The index where the run of digits that starts at index i ends.
RECURSIVE DigitRun(_, _)
DigitRun(text, i) ==
    IF CharAt(text, i) \in Digits THEN DigitRun(text, i + 1) ELSE i

\* A numeral of the grammar: optional `-`, digits, optional `.` and digits,
\* optional exponent marker with optional sign and digits.
WellFormedNumeral(text, markers) ==
    LET i0 == IF CharAt(text, 0) = "-" THEN 1 ELSE 0
        i1 == DigitRun(text, i0)
        hasFraction == CharAt(text, i1) = "."
        i2 == IF hasFraction THEN DigitRun(text, i1 + 1) ELSE i1
        hasExponent == CharAt(text, i2) \in markers
        i3 == IF hasExponent /\ CharAt(text, i2 + 1) \in Signs THEN i2 + 2
              ELSE IF hasExponent THEN i2 + 1 ELSE i2
        i4 == IF hasExponent THEN DigitRun(text, i3) ELSE i3
    IN  /\ i1 > i0
        /\ hasFraction => i2 > i1 + 1
        /\ hasExponent => i4 > i3
        /\ i4 = Len(text)

ExponentMarkers == {"e", "E"}

\* C21: the value of a Number token whose text is a well-formed numeral is
\* that text as written, the leading `-` of a negative numeral included.
C21_NumberValueIsText ==
    \A k \in 1..Len(yielded) :
        (yielded[k].type = "Number" /\ WellFormedNumeral(yielded[k].text, ExponentMarkers))
            => yielded[k].value = yielded[k].text

\* C22: a well-formed numeral, its exponent led by `e` or by `E`, is lexed
\* as one Number token that covers the whole numeral, and nothing else.
C22_ExponentEitherCase ==
    (lexpc = "done" /\ WellFormedNumeral(source, ExponentMarkers))
        => /\ Len(yielded) = 1
           /\ yielded[1].type = "Number"
           /\ yielded[1].text = source


-----------------------------------------------------------------------------
(* Object bodies (SpecObjects): expectNodeObject on `{ k1: 1, ..., kn: 1 }`. *)

MaxPairs == 3
ObjectKeyNames == {"a", "a1", "a2", "b", "toString"}

\* The sequences of at most n keys.
RECURSIVE KeyLists(_)
KeyLists(n) ==
    IF n = 0 THEN {<<>>}
    ELSE LET shorter == KeyLists(n - 1)
         IN  shorter \cup {Append(keys, key) : keys \in shorter, key \in ObjectKeyNames}

\* The pairs of an object body, as they are written.
RECURSIVE PairsText(_)
PairsText(keys) ==
    IF keys = <<>> THEN ""
    ELSE (IF Len(keys) = 1 THEN "" ELSE PairsText(SubSeq(keys, 1, Len(keys) - 1)) \o ", ")
         \o keys[Len(keys)] \o ": 1"

ObjectText(keys) == "{ " \o PairsText(keys) \o " }"

ObjectsInit ==
    /\ \E keys \in KeyLists(MaxPairs) :
        /\ source = ObjectText(keys)
        /\ request = [name |-> "none", keys |-> keys]
    /\ position = StartPosition
    /\ lexpc = "loop"
    /\ yielded = <<>>
    /\ parser = NewParser(source)
    /\ phase = "objects"
    /\ parsedMessages = <<>>
    /\ validatedWith = 0
    /\ repeats = 0
    /\ calls = 0
    /\ model = [parsedFiles |-> <<>>]
    /\ documents = <<>>
    /\ published = <<>>

\* this.expectNodeObject(this.token()) with the `{` as the current token
ExpectNodeObject ==
    /\ phase = "objects"
    /\ request.name = "none"
    /\ LET result == call("expectNodeObject", <<parser, parser.currentToken>>)
       IN  /\ parser' = result.p
           /\ request' = [name |-> "expectNodeObject",
                          keys |-> request.keys,
                          node |-> result.node]
    /\ UNCHANGED <<lexVars, phase, parsedMessages, validatedWith, repeats, calls, model,
                   documents, published>>

ObjectsNext == ExpectNodeObject

SpecObjects == ObjectsInit /\ [][ObjectsNext]_vars

\* The pairs whose key repeats the key of an earlier pair.
RepeatedPairs(keys) == {i \in 1..Len(keys) : \E j \in 1..(i - 1) : keys[j] = keys[i]}

AlreadyDefined(messages) ==
    Len(SelectSeq(messages,
                  LAMBDA m : \E key \in ObjectKeyNames :
                                m.text = "Key '" \o key \o "' is already defined."))

\* C23: the node expectNodeObject returns for a body of n keyed pairs holds
\* n entries, and one "already defined" diagnostic is added per pair whose
\* key repeats an earlier pair's key.
C23_NoPairDropped ==
    request.name = "expectNodeObject"
        => /\ Len(request.node.value) = Len(request.keys)
           /\ AlreadyDefined(parser.parsedDocument.messages)
                = Cardinality(RepeatedPairs(request.keys))


-----------------------------------------------------------------------------
(* Namespace statements (SpecNamespace): parse() on texts of namespace      *)
(* statements, whole and cut short, and a shape statement.                  *)

MaxNamespaceLines == 3
NamespaceStatements == {"namespace a", "namespace b", "namespace", "namespace 1", "string Foo"}

NamespaceInit ==
    /\ source \in Lines(NamespaceStatements, MaxNamespaceLines)
    /\ position = StartPosition
    /\ lexpc = "loop"
    /\ yielded = <<>>
    /\ parser = NewParser(source)
    /\ phase = "parse"
    /\ parsedMessages = <<>>
    /\ validatedWith = 0
    /\ repeats = 0
    /\ calls = 0
    /\ ModelIdle

NamespaceNext ==
    \/ ParseNamespace
    \/ ParseSimple
    \/ ParseUnexpectedIdentifier
    \/ ParseUnexpectedToken
    \/ FinishParsing

SpecNamespace == NamespaceInit /\ [][NamespaceNext]_vars

AlreadyDefinedNamespace == "Namespace was already defined as '[object Object]'."

\* The step is the round of parse() for a `namespace` statement.
NamespaceStep == RoundStep /\ statementBranch(parser.currentToken) = "namespace"

\* The token after the statement token is an identifier-typed token.
IdentifierFollows == parser.tokens # <<>> /\ Head(parser.tokens).type = "Identifier"

\* C24 (as claimed): a namespace statement met when the document has a
\* namespace adds an error diagnostic and leaves the namespace unchanged.
C24_FirstNamespaceStays ==
    [][(NamespaceStep /\ parser.parsedDocument.namespace # undefined)
          => /\ Added(AlreadyDefinedNamespace) = 1
             /\ parser'.parsedDocument.namespace = parser.parsedDocument.namespace]_vars

\* C24 (amended): a namespace statement adds the "already defined"
\* diagnostic exactly when the document has a namespace, and in either case
\* an identifier-typed token that follows is consumed and becomes the
\* namespace; without one, "Expected namespace." is added and the namespace
\* stays.
C24_LastNamespaceStands ==
    [][NamespaceStep
          => /\ Added(AlreadyDefinedNamespace) =
                    IF parser.parsedDocument.namespace # undefined THEN 1 ELSE 0
             /\ IF IdentifierFollows
                THEN /\ parser'.parsedDocument.namespace = Head(parser.tokens).value
                     /\ Added("Expected namespace.") = 0
                     /\ LookAhead(parser') >= LookAhead(parser) + 2
                ELSE /\ parser'.parsedDocument.namespace = parser.parsedDocument.namespace
                     /\ Added("Expected namespace.") = 1
                     /\ LookAhead(parser') = LookAhead(parser) + 1]_vars

\* Two namespace statements have been parsed: one diagnostic, and the
\* namespace is the second one's.
C24_Witness ==
    /\ phase = "finished"
    /\ source = "namespace a\nnamespace b"
    /\ parser.parsedDocument.namespace = "b"
    /\ CountText(parser.parsedDocument.messages, AlreadyDefinedNamespace) = 1


-----------------------------------------------------------------------------
(* Shape statements (SpecShapes): parse() on a namespace statement and one  *)
(* aggregate or service shape statement with a body of `key: String` pairs. *)

MaxMembers == 2
ShapeNamespaces == {"com.example", "a"}
ShapeNames == {"Foo", "Q", "toString"}
MemberNames == {"bar", "baz", "member"}

\* The sequences of at most n member names.
RECURSIVE MemberLists(_)
MemberLists(n) ==
    IF n = 0 THEN {<<>>}
    ELSE LET shorter == MemberLists(n - 1)
         IN  shorter \cup {Append(keys, key) : keys \in shorter, key \in MemberNames}

\* The pairs of a shape body, as they are written.
RECURSIVE MembersText(_)
MembersText(keys) ==
    IF keys = <<>> THEN ""
    ELSE (IF Len(keys) = 1 THEN "" ELSE MembersText(SubSeq(keys, 1, Len(keys) - 1)) \o ", ")
         \o keys[Len(keys)] \o ": String"

ShapesInit ==
    /\ \E namespace \in ShapeNamespaces, kind \in aggregateShapeNames, name \in ShapeNames,
          keys \in MemberLists(MaxMembers) :
        /\ source = "namespace " \o namespace \o "\n"
                    \o kind \o " " \o name \o " { " \o MembersText(keys) \o " }"
        /\ request = [name |-> "none", namespace |-> namespace, kind |-> kind,
                      shape |-> name, keys |-> keys]
    /\ position = StartPosition
    /\ lexpc = "loop"
    /\ yielded = <<>>
    /\ parser = NewParser(source)
    /\ phase = "parse"
    /\ parsedMessages = <<>>
    /\ validatedWith = 0
    /\ repeats = 0
    /\ calls = 0
    /\ model = [parsedFiles |-> <<>>]
    /\ documents = <<>>
    /\ published = <<>>

ShapesNext ==
    \/ ParseNamespace
    \/ ParseAggregate
    \/ FinishParsing

SpecShapes == ShapesInit /\ [][ShapesNext]_vars

Distinct(keys) == \A i, j \in 1..Len(keys) : keys[i] = keys[j] => i = j

\* The ids the statement is to register: the shape and one member per key.
ShapeId == request.namespace \o "#" \o request.shape
MemberId(key) == ShapeId \o "$" \o key
ExpectedIds == {ShapeId} \cup {MemberId(request.keys[i]) : i \in 1..Len(request.keys)}

\* The token the id is defined on: the name after the keyword, or the key.
DefinedOn(id, token) ==
    /\ token.type = "Identifier"
    /\ \/ id = ShapeId /\ token.value = request.shape
       \/ \E i \in 1..Len(request.keys) :
            id = MemberId(request.keys[i]) /\ token.value = request.keys[i]

ShapeReferences(doc) == SelectSeq(doc.references, LAMBDA r : r.type = "Shape")

-----------------------------------------------------------------------------
(* resolveId of identifiers without a namespace (checked under              *)
(* SpecIdentifier).                                                         *)

\* The first canonical id the document has registered for the relative id.
FirstRegistered(doc, relative) == doc.relativeShapes[relative][1]

\* C26: resolveId of an identifier without namespace is the first canonical
\* id registered for its relative id when the document has one, and
\* otherwise `ns#name[$member]` with the document's namespace, or smithy.api
\* when the document has none.
C26_ResolveIdRelative ==
    request.name = "resolveId" /\ request.identifier.namespace = undefined =>
        LET doc == IdDocuments[request.document]
            id == request.identifier
        IN  request.result =
                IF toRelative(id) \in DOMAIN doc.relativeShapes
                THEN FirstRegistered(doc, toRelative(id))
                ELSE (IF doc.namespace # undefined THEN doc.namespace ELSE "smithy.api")
                     \o "#" \o id.name
                     \o (IF id.member # undefined THEN "$" \o id.member ELSE "")


-----------------------------------------------------------------------------
(* addShape (SpecAddShape): sequences of addShape calls on one document,    *)
(* with namespace statements between them.                                  *)

MaxAddShapeCalls == 3
AddShapeIds == {"Foo", "a#Foo", "b#Foo", "Foo$bar", "toString"}
AddShapeNamespaces == {"a", "b"}

\* The token of the n-th definition: the identifier as written, on line n.
ShapeToken(value, n) ==
    [type  |-> "Identifier",
     text  |-> value,
     value |-> value,
     range |-> [start |-> [index |-> 0, line |-> n, column |-> 0],
                end   |-> [index |-> Len(value), line |-> n, column |-> Len(value)]]]

AddShapeInit ==
    /\ source = ""
    /\ position = StartPosition
    /\ lexpc = "done"
    /\ yielded = <<>>
    /\ parser = NewParser("")
    /\ phase = "addShape"
    /\ parsedMessages = <<>>
    /\ validatedWith = 0
    /\ repeats = 0
    /\ calls = 0
    /\ model = [parsedFiles |-> <<>>]
    /\ documents = <<>>
    /\ published = <<>>
    /\ request = [name |-> "none", count |-> 0]

\* this.parsedDocument.addShape(new Identifier(value), token); after a call
\* that throws no other call is made on the document.
AddShape ==
    /\ phase = "addShape"
    /\ ~parser.thrown
    /\ request.count < MaxAddShapeCalls
    /\ \E value \in AddShapeIds :
        /\ parser' = [parser EXCEPT
                        !.parsedDocument = addShape(@, Identifier(value),
                                                    ShapeToken(value, request.count)),
                        !.thrown = addShapeThrows(parser.parsedDocument, Identifier(value))]
        /\ request' = [name |-> "addShape", count |-> request.count + 1]
    /\ UNCHANGED <<lexVars, phase, parsedMessages, validatedWith, repeats, calls, model,
                   documents, published>>

\* this.parsedDocument.namespace = this.token().value
SetNamespace ==
    /\ phase = "addShape"
    /\ ~parser.thrown
    /\ request.name # "namespace"
    /\ \E namespace \in AddShapeNamespaces :
        parser' = [parser EXCEPT !.parsedDocument.namespace = namespace]
    /\ request' = [name |-> "namespace", count |-> request.count]
    /\ UNCHANGED <<lexVars, phase, parsedMessages, validatedWith, repeats, calls, model,
                   documents, published>>

AddShapeNext ==
    \/ AddShape
    \/ SetNamespace

SpecAddShape == AddShapeInit /\ [][AddShapeNext]_vars

\* The number of items over the lists the map has under the keys.
RECURSIVE ItemsUnder(_, _)
ItemsUnder(map, keys) ==
    IF keys = {} THEN 0
    ELSE LET key == CHOOSE k \in keys : TRUE
         IN  Len(map[key]) + ItemsUnder(map, keys \ {key})

TotalItems(map) == ItemsUnder(map, DOMAIN map)

\* Every list of the map before the step is the head of its list after it.
EntriesKept(before, after) ==
    \A key \in DOMAIN before :
        /\ key \in DOMAIN after
        /\ Len(after[key]) >= Len(before[key])
        /\ SubSeq(after[key], 1, Len(before[key])) = before[key]

ShapesConsistent ==
    LET doc == parser.parsedDocument
    IN  /\ \A relative \in DOMAIN doc.relativeShapes :
                \A i \in 1..Len(doc.relativeShapes[relative]) :
                    doc.relativeShapes[relative][i] \in DOMAIN doc.shapes
        /\ TotalItems(doc.shapes) = request.count
        /\ TotalItems(doc.relativeShapes) = request.count

ShapesGrowOnly ==
    /\ EntriesKept(parser.parsedDocument.shapes, parser'.parsedDocument.shapes)
    /\ EntriesKept(parser.parsedDocument.relativeShapes, parser'.parsedDocument.relativeShapes)

-----------------------------------------------------------------------------
(* Definition sites under validate() (checked under SpecParser).            *)

\* The message was added on the token.
OnToken(message, token) ==
    /\ message.startIndex = token.range.start.index
    /\ message.endIndex = token.range.end.index

\* The references of the types that define: shapes, members and imports.
DefinitionSites(doc) ==
    {doc.references[i] : i \in {j \in 1..Len(doc.references) :
                                    doc.references[j].type \in {"Shape", "Use"}}}

\* C28: after validate(), whatever the document set, no "Unknown shape."
\* diagnostic is on the token of a Shape or Use reference, and the id each
\* such reference resolves to is a key of the document's own shapes.
C28_DefinitionSitesResolve ==
    phase = "validated" =>
        LET doc == parser.parsedDocument
        IN  \A site \in DefinitionSites(doc) :
                /\ PropertyKey(resolveId(doc, site.identifier)) \in DOMAIN doc.shapes
                /\ \A i \in 1..Len(doc.messages) :
                        doc.messages[i].text = "Unknown shape."
                            => ~OnToken(doc.messages[i], site.token)

\* An import and a definition of one relative name, the namespace declared
\* after both, validated against the empty document set.
C28_Witness ==
    /\ phase = "validated"
    /\ validatedWith = 1
    /\ source = "use b#Foo\nstring Foo\nnamespace a"
    /\ Cardinality(DefinitionSites(parser.parsedDocument)) = 2
    /\ CountText(parser.parsedDocument.messages, "Unknown shape.") = 0


-----------------------------------------------------------------------------
(* Closing delimiters (SpecClosers): expectNodeObject, expectArrayObject    *)
(* and expectTrait on a well-formed body followed by at most MaxFollowers   *)
(* tokens, of which the first may or may not be the closer.                 *)

MaxFollowers == 2
FollowerTokens == {"}", "]", ")", "string", "Foo"}

\* The sequences of at most n following tokens.
RECURSIVE Followers(_)
Followers(n) ==
    IF n = 0 THEN {<<>>}
    ELSE LET shorter == Followers(n - 1)
         IN  shorter \cup {Append(f, token) : f \in shorter, token \in FollowerTokens}

RECURSIVE FollowersText(_)
FollowersText(follower) ==
    IF follower = <<>> THEN ""
    ELSE " " \o Head(follower) \o FollowersText(Tail(follower))

\* The opener with a body, and the closer that is expected after it.
CloserCases ==
    {[kind |-> "object", body |-> "{ a: 1",       closer |-> "}"],
     [kind |-> "object", body |-> "{ a: 1, b: 2", closer |-> "}"],
     [kind |-> "array",  body |-> "[ 1",          closer |-> "]"],
     [kind |-> "array",  body |-> "[ 1, a",       closer |-> "]"],
     [kind |-> "trait",  body |-> "@t( 1",        closer |-> ")"],
     [kind |-> "trait",  body |-> "@t( a: 1, 2",  closer |-> ")"]}

ClosersInit ==
    /\ \E case \in CloserCases, follower \in Followers(MaxFollowers) :
        /\ source = case.body \o FollowersText(follower)
        /\ request = [name |-> "none", kind |-> case.kind, closer |-> case.closer,
                      follower |-> follower]
    /\ position = StartPosition
    /\ lexpc = "loop"
    /\ yielded = <<>>
    /\ parser = NewParser(source)
    /\ phase = "closers"
    /\ parsedMessages = <<>>
    /\ validatedWith = 0
    /\ repeats = 0
    /\ calls = 0
    /\ model = [parsedFiles |-> <<>>]
    /\ documents = <<>>
    /\ published = <<>>

\* The call of one of the three methods, the opener being the current token.
Closer(kind, after) ==
    /\ phase = "closers"
    /\ request.name = "none"
    /\ request.kind = kind
    /\ parser' = after
    /\ request' = [request EXCEPT !.name = kind]
    /\ UNCHANGED <<lexVars, phase, parsedMessages, validatedWith, repeats, calls, model,
                   documents, published>>

ObjectCloser == Closer("object", call("expectNodeObject", <<parser, parser.currentToken>>).p)
ArrayCloser == Closer("array", call("expectArrayObject", <<parser>>).p)
TraitCloser == Closer("trait", call("expectTrait", <<parser, parser.currentToken>>))

ClosersNext ==
    \/ ObjectCloser
    \/ ArrayCloser
    \/ TraitCloser

SpecClosers == ClosersInit /\ [][ClosersNext]_vars

\* The method has returned and had met a token that is not its closer, or
\* the end of the input, where it expected the closer.
CloserMissing ==
    /\ request.name # "none"
    /\ (request.follower = <<>> \/ request.follower[1] # request.closer)

ExpectedCloser == "Expected '" \o request.closer \o "'."

\* The look-ahead is the k-th of the following tokens, or End past the last.
LookAheadIsFollower(k) ==
    IF k > Len(request.follower)
    THEN parser.currentToken.type = "End" /\ parser.tokens = <<>>
    ELSE /\ parser.currentToken.type # "End"
         /\ parser.currentToken.value = request.follower[k]
         /\ Len(parser.tokens) = Len(request.follower) - k

\* C29 (as claimed): a token that is not the expected closer gets one
\* "Expected ..." diagnostic and is not consumed: it is the look-ahead when
\* the method returns.
C29_TokenStaysLookAhead ==
    CloserMissing =>
        /\ parser.parsedDocument.messages # <<>>
        /\ \A i \in 1..Len(parser.parsedDocument.messages) :
                parser.parsedDocument.messages[i].text = ExpectedCloser
        /\ Len(parser.parsedDocument.messages) = 1
        /\ LookAheadIsFollower(1)

\* C29 (amended): a token that is not the expected closer gets one
\* "Expected ..." diagnostic and is consumed in the closer's place, so the
\* look-ahead when the method returns is the token after it; a closer that
\* is there is consumed without a diagnostic.
C29_TokenConsumedAsCloser ==
    request.name # "none" =>
        /\ LookAheadIsFollower(2)
        /\ IF CloserMissing
           THEN /\ Len(parser.parsedDocument.messages) = 1
                /\ parser.parsedDocument.messages[1].text = ExpectedCloser
           ELSE parser.parsedDocument.messages = <<>>

\* A statement keyword after an unclosed body: the keyword is consumed and
\* the name after it is the look-ahead.
C29_Witness ==
    /\ request.name = "object"
    /\ request.follower = <<"string", "Foo">>
    /\ parser.currentToken.value = "Foo"
    /\ CountText(parser.parsedDocument.messages, "Expected '}'.") = 1


-----------------------------------------------------------------------------
(* Diagnostics across documents (checked under SpecModel).                  *)

\* The documents of the registry, in its order.
TrackedDocuments(registry) == [i \in 1..Len(registry.parsedFiles) |-> registry.parsedFiles[i][2]]

\* What validate() gives for the tracked document of uri against the
\* documents tracked now.
ValidatedNow(uri) ==
    validate(mapGet(model.parsedFiles, uri), TrackedDocuments(model)).messages

\* C30 (as claimed): the diagnostics held for a tracked document are what
\* validate() gives against the current document set.
C30_DiagnosticsCurrent ==
    \A uri \in Uris :
        (mapHas(published, uri) /\ mapHas(model.parsedFiles, uri))
            => mapGet(published, uri) = ValidatedNow(uri)

\* The step is the open/change notification for uri, and parse() returned.
ChangeOf(uri) ==
    /\ request'.name = "didChangeContent"
    /\ request'.uri = uri
    /\ ~request'.thrown

\* C30 (amended): the diagnostics held for a document are those of
\* validate() at the document's own last open/change notification, against
\* the documents tracked then; no notification for another document and no
\* deletion recomputes them.
C30_DiagnosticsOfLastChange ==
    [][\A uri \in Uris :
        IF ChangeOf(uri)
        THEN /\ mapHas(published', uri)
             /\ mapGet(published', uri) =
                    validate(modelParseDocument(uri, request'.text),
                             TrackedDocuments(model')).messages
        ELSE /\ mapHas(published', uri) <=> mapHas(published, uri)
             /\ mapHas(published, uri) => mapGet(published', uri) = mapGet(published, uri)]_vars

\* A document keeps its "Unknown shape." diagnostic although the other
\* tracked document now defines the shape.
C30_Witness ==
    /\ mapHas(published, "file:///a.smithy")
    /\ mapHas(model.parsedFiles, "file:///a.smithy")
    /\ mapHas(model.parsedFiles, "file:///b.smithy")
    /\ CountText(mapGet(published, "file:///a.smithy"), "Unknown shape.") = 1
    /\ CountText(ValidatedNow("file:///a.smithy"), "Unknown shape.") = 0

=============================================================================
